---- MODULE Spec2Model ----
(***************************************************************************)
(* roomloop-server: the login-attempt / lockout tracker of                 *)
(* src/middleware/security.ts with the login route of src/routes/auth.ts   *)
(* and src/controllers/authController.ts, and the realtime (socket.io)     *)
(* presence and fanout handlers of src/index.ts over the cache service;    *)
(* the cache service and the caching / invalidation middleware, the        *)
(* database connection with its retries (src/config/database.ts), the      *)
(* request-volume limiters of src/middleware/security.ts, the room         *)
(* creation, join and invitation handlers of                               *)
(* src/controllers/roomController.ts, and the chat-message handler         *)
(* (createMessage) of src/controllers/aiController.ts.                     *)
(*                                                                         *)
(* Each subsystem has its own specification over the shared initial state. *)
(* Lockout time is counted in ticks of MsPerTick milliseconds.             *)
(***************************************************************************)
EXTENDS Integers, Sequences, FiniteSets, TLC

\* ------------------------------------------------------------------------
\* Bounds of the model
\* ------------------------------------------------------------------------
NumReqs == 2       \* login requests that can be in flight together
MaxCount == 11     \* no new login request starts once a record counts this many failures
FineWindow == 3    \* ticks after each sweep instant in which the clock advances tick by tick
MaxTime == 25      \* the clock stops here
MaxList == 2       \* join_room arrives only while the cached participants array is shorter
MaxVersion == 2    \* state-mutating room requests that commit in a run
MaxBurst == 12     \* requests of one kind a client sends at one instant
MaxRoomTime == 4   \* the clock of the room-creation limiter stops here
MaxAuthTime == 2   \* the clock of the authentication limiter stops here
MaxParticipants == 3  \* no join request arrives once the participants array is this long
MaxAttempts == 5   \* connectDatabase() is not called again after this many calls of mongoose.connect

\* ------------------------------------------------------------------------
\* Constants of the program
\* ------------------------------------------------------------------------
MsPerTick == 150 * 1000

LockThreshold == 10
\* parseInt(process.env.MONGODB_MAX_RETRIES || "3")
DefaultMaxRetries == 3
\* parseInt(process.env.MONGODB_RETRY_DELAY || "1000")
DefaultRetryDelay == 1000

LockoutDuration == (5 * 60 * 1000) \div MsPerTick

SweepInterval == (60 * 60 * 1000) \div MsPerTick

StaleAfter == (24 * 60 * 60 * 1000) \div MsPerTick

\* ------------------------------------------------------------------------
\* Inputs
\* ------------------------------------------------------------------------
Reqs == 1..NumReqs

\* req.body of the login requests: a registered user name with the right and
\* with a wrong password, and the same name in another case
NamedBodies == { [login |-> "alice", password |-> "good"],
                 [login |-> "alice", password |-> "bad"],
                 [login |-> "Alice", password |-> "bad"] }

\* req.body with an empty login (the validators of the route are commented out),
\* beside a login with the right credentials
EmptyBodies == { [login |-> "", password |-> "bad"],
                 [login |-> "alice", password |-> "good"] }

Logins == {b.login : b \in NamedBodies \cup EmptyBodies}

ClientIp == "ip1"

\* String.prototype.toLowerCase on the login values above
ToLower(l) == IF l = "Alice" THEN "alice" ELSE l

\* the users collection: login name (username or email) -> password
RegisteredPassword == [l \in {"alice"} |-> "good"]

\* User.findOne({$or: [{email: login}, {username: login}]}): exact match
FindOne(l) == IF l \in DOMAIN RegisteredPassword THEN l ELSE "none"

\* user.comparePassword(password)
ComparePassword(u, p) == RegisteredPassword[u] = p

Identifiers == {ToLower(l) : l \in Logins} \cup {ClientIp}

NoTime == -1

\* the value loginAttempts.get returns for a key the map does not hold
NoAttempt == [present |-> FALSE, count |-> 0, lastAttempt |-> NoTime, lockedUntil |-> NoTime]

IdleReq == [pc |-> "idle", login |-> "", password |-> "bad"]

\* no response is sent
NoResponse == [status |-> 0, message |-> "", login |-> "", remaining |-> 0, wasLocked |-> FALSE]

VARIABLES
  now,            \* Date.now(), in ticks
  nextSweep,      \* the instant the setInterval callback is due next
  loginAttempts,  \* the loginAttempts map: identifier -> LoginAttempt (or NoAttempt)
  failures,       \* history: recordLoginAttempt(X, false) calls since X's record was last absent
  req,            \* the login requests in flight: the await the login handler is suspended at
  response        \* the response sent by the last step (NoResponse: none); wasLocked: the
                  \* record recordLoginAttempt found had a lockedUntil

lockoutVars == <<now, nextSweep, loginAttempts, failures, req, response>>

\* ------------------------------------------------------------------------
\* Realtime: inputs and values
\* ------------------------------------------------------------------------
Sockets == {"s1", "s2"}

\* _id of the documents of the users collection (hex strings)
Users == {"u1", "u2"}

\* roomId payloads of join_room / leave_room
RoomIds == {"r1"}

\* payloads of join_room / leave_room: a room id, "none" for an event without
\* roomId (roomId is undefined in the handler), or any other string, such as the
\* id of a user
RoomPayloads == RoomIds \cup {"none"} \cup Users

\* data.roomId of send_message / send_reaction ("none": no roomId in the payload)
SendTargets == RoomIds \cup {"none"}

\* socket.handshake.auth.token: missing, not verifiable, signed for a user of
\* the collection, signed for a user that has been deleted since
Tokens == {"none", "bad", "tok_u1", "tok_u2", "tok_gone"}

\* jwt.verify(token, secret): the id of the payload, "invalid" when it throws
JwtVerify(t) ==
  CASE t = "tok_u1" -> "u1"
    [] t = "tok_u2" -> "u2"
    [] t = "tok_gone" -> "gone"
    [] OTHER -> "invalid"

\* User.findById(id): the _id of the document found, "none" for null
FindById(id) == IF id \in Users THEN id ELSE "none"

\* user._id, a mongoose ObjectId, and a JavaScript string holding the same hex digits
ObjectId(u) == [type |-> "ObjectId", hex |-> u]

HexString(u) == [type |-> "string", hex |-> u]

\* JSON.parse(JSON.stringify(v)) of an id: ObjectId.toJSON gives the hex string
JsonRoundTrip(v) == HexString(v.hex)

\* Array.prototype.includes: SameValueZero, an ObjectId never equals a string
Includes(arr, v) == \E i \in 1..Len(arr) : arr[i] = v

\* participants.filter((id) => id !== userId)
FilterOut(arr, v) == SelectSeq(arr, LAMBDA x : x # v)

\* the ids a cached participants array holds
ListedUsers(arr) == {arr[i].hex : i \in 1..Len(arr)}

NewSocket == [state |-> "new", token |-> "none", user |-> "none", error |-> "none"]

IdleHandler == [pc |-> "idle", kind |-> "none", room |-> "none", participants |-> <<>>,
                again |-> FALSE]

\* a cache key that redis does not hold
NoEntry == [present |-> FALSE, list |-> <<>>]

NoOnline == [present |-> FALSE, socketId |-> "none"]

VARIABLES
  sock,         \* per socket: phase of the connection, handshake token, socket.user.id, error passed to next()
  rooms,        \* per socket: socket.rooms, the adapter rooms it has joined
  hd,           \* per socket: its join_room / leave_room handler suspended at a cache call
  partCache,    \* redis, room:participants:<roomId>: the stored array
  onlineCache,  \* redis, online:users:<userId>: the stored socket id
  isConnected,  \* CacheService.isConnected
  cacheMissed,  \* history: some cache operation returned early because isConnected was false
  received,     \* history: the sockets with a suspended handler, in the order of their events
  emitted       \* the events emitted by the last step, each with the sockets it is delivered to

realtimeVars == <<sock, rooms, hd, partCache, onlineCache, isConnected, cacheMissed, received,
                  emitted>>

\* ------------------------------------------------------------------------
\* Cache service called directly: inputs and values
\* ------------------------------------------------------------------------
\* redis keys the public operations are called with
RoomDetailsKey == "room:details:r1"

RoomListKeys == {"room:list:public", "room:list:all"}

ParticipantsKey == "room:participants:r1"

OnlineKey == "online:users:u1"

OpKeys == {RoomDetailsKey, ParticipantsKey, OnlineKey} \cup RoomListKeys

\* public operations of CacheService
CacheOps == {"get", "set", "del", "setOnlineUser", "removeOnlineUser",
             "addRoomParticipant", "removeRoomParticipant", "invalidateRoomCache"}

\* the key an operation works on
KeyOf(op, key) ==
  CASE op \in {"setOnlineUser", "removeOnlineUser"} -> OnlineKey
    [] op \in {"addRoomParticipant", "removeRoomParticipant"} -> ParticipantsKey
    [] op = "invalidateRoomCache" -> RoomDetailsKey
    [] OTHER -> key

\* JSON arrays of ids passed as value or as userId
OpValues == {<<HexString("u1")>>, <<HexString("u2")>>}

IdleCall == [pc |-> "idle", op |-> "none", key |-> "none", value |-> <<>>,
             data |-> NoEntry, failed |-> FALSE]

NoOutcome == [op |-> "none", result |-> "none", connected |-> FALSE, failed |-> FALSE]

VARIABLES
  kv,            \* redis: key -> stored JSON array (or NoEntry)
  cacheCall,     \* the public operation in flight: the redis command it awaits
  cacheOutcome   \* how the last operation ended: its result, isConnected at its entry,
                 \* whether a redis command of it was rejected

cacheOpVars == <<kv, cacheCall, cacheOutcome>>

\* ------------------------------------------------------------------------
\* HTTP requests through cacheMiddleware / invalidateCache: inputs and values
\* ------------------------------------------------------------------------
\* req.user?.id || "anonymous"
HttpUsers == {"anonymous", "u1"}

\* req.path of the GET requests: a list endpoint of CACHE_CONFIG and a room's detail
GetPaths == {"/api/rooms/public", "/api/rooms/r1"}

\* CACHE_CONFIG[`GET:${req.path.split("/:")[0]}`]: its key, "none" when undefined
\* (a request path holds no "/:", so the split leaves it whole)
ConfigKey(path) ==
  CASE path = "/api/rooms/public" -> "room:public"
    [] path = "/api/rooms/all" -> "room:all"
    [] path = "/api/rooms/user" -> "room:user"
    [] path = "/api/auth/me" -> "user:profile"
    [] OTHER -> "none"

\* shouldCache for a GET request
ShouldCache(path, user) ==
  /\ ~(user = "anonymous" /\ path = "/api/rooms/user")
  /\ ConfigKey(path) # "none"

\* a cache key without the actor
GenerateCacheKeyShared(path, user) == <<ConfigKey(path), "anonymous">>

\* generateCacheKey for a request without params and query: <<baseKey, userId>>
\* stands for `${baseKey}:${userId}`
GenerateCacheKey(path, user) == <<ConfigKey(path), user>>

\* keys cacheMiddleware fills
MiddlewareKeys == {GenerateCacheKey(p, u) : p \in {q \in GetPaths : ConfigKey(q) # "none"},
                                            u \in HttpUsers}

\* keys of setRoomDetails(roomId, ...) and setRoomList(filter, ...)
HelperKeys == {<<"room:details", "r1">>, <<"room:list", "public">>}

ApiKeys == MiddlewareKeys \cup HelperKeys

\* the JSON a room handler sends: the rooms as of version ver of the store, or
\* the error body of its catch
RoomsBody(ver) == [kind |-> "rooms", ver |-> ver]

ErrorBody == [kind |-> "error", ver |-> 0]

\* res.status(...).json(...) of getPublicRooms / getRoomById
HandlerResponse(ver, dbOk) ==
  IF dbOk THEN [status |-> 200, body |-> RoomsBody(ver)]
  ELSE [status |-> 500, body |-> ErrorBody]

NoApiEntry == [present |-> FALSE, body |-> ErrorBody, fill |-> 0, actor |-> "none"]

NoKey == <<"none", "none">>

IdleGet == [pc |-> "idle", user |-> "none", key |-> NoKey, caching |-> FALSE,
            found |-> NoApiEntry, read |-> 0]

IdleMutation == [pc |-> "idle", listKeys |-> {}]

NoHttpResp == [kind |-> "none", status |-> 0, body |-> ErrorBody, fromCache |-> FALSE]

VARIABLES
  roomVersion,  \* primary store: number of committed changes to room r1
  apiCache,     \* redis: key -> cached JSON body, with the roomVersion at the time of SETEX
                \* and, as history, the actor whose request stored it
  getReq,       \* the GET request in flight: the await it is suspended at
  mutReq,       \* the state-mutating request in flight, up to the end of its invalidation
  httpResp      \* the response sent by the last step

httpVars == <<roomVersion, apiCache, getReq, mutReq, httpResp>>

\* ------------------------------------------------------------------------
\* Database connection: inputs and values
\* ------------------------------------------------------------------------
\* maxRetries of the DatabaseConnection (MONGODB_MAX_RETRIES, default 3)
MaxRetriesChoices == {1, 2, DefaultMaxRetries, 4}

\* retryDelay in milliseconds (MONGODB_RETRY_DELAY, default 1000)
RetryDelayChoices == {250, 500, DefaultRetryDelay}

VARIABLES
  dbPc,                \* where connectDatabase() is: idle, connecting (await mongoose.connect),
                       \* waiting (retry timer set), connected, disconnected, exited
  connectionAttempts,  \* let connectionAttempts
  dbIsConnected,       \* let isConnected of config/database.ts
  maxRetries,          \* this.maxRetries
  retryDelay,          \* this.retryDelay
  attemptsMade,        \* history: calls of mongoose.connect
  failedAttempts,      \* history: calls of mongoose.connect that were rejected
  failureRun,          \* history: rejected calls of mongoose.connect since the last resolved one
  delays,              \* history: the delays passed to setTimeout, in order
  exitCode             \* argument of process.exit, -1 while the process runs

dbVars == <<dbPc, connectionAttempts, dbIsConnected, maxRetries, retryDelay,
            attemptsMade, failedAttempts, failureRun, delays, exitCode>>

\* ------------------------------------------------------------------------
\* Request-volume limiters (express-rate-limit): inputs and values
\* ------------------------------------------------------------------------
\* rateLimit({ windowMs, max, skipSuccessfulRequests }) of security.ts
LimiterConfig ==
  [general      |-> [windowMs |-> 15 * 60 * 1000, max |-> 500, skipSuccessfulRequests |-> FALSE],
   auth         |-> [windowMs |-> 15 * 60 * 1000, max |-> 20, skipSuccessfulRequests |-> TRUE],
   roomCreation |-> [windowMs |-> 60 * 60 * 1000, max |-> 10, skipSuccessfulRequests |-> FALSE],
   message      |-> [windowMs |-> 1 * 60 * 1000, max |-> 30, skipSuccessfulRequests |-> FALSE]]

\* the clocks of the two limiters modelled count ticks of these lengths
RoomTickMs == 30 * 60 * 1000

AuthTickMs == 450 * 1000

\* the counter the limiter keeps for the one client: no window open
NoHits == [hits |-> 0, resetTime |-> NoTime]

\* requests to the authentication routes: a login with wrong credentials, a
\* registration of a new valid user; the status their handler answers
AuthKinds == {"login_bad", "register"}

HandlerStatus == [login_bad |-> 401, register |-> 201]

NoBurst == [sent |-> 0, limited |-> 0]

\* the client sends its requests to the authentication routes in batches of
\* one kind
NoAuthBurst == [kind |-> "none", sent |-> 0, limited |-> 0]

VARIABLES
  roomClock,    \* time at the room-creation limiter, in ticks of RoomTickMs
  roomLimit,    \* roomCreationLimiter: the counter of the client
  roomLog,      \* history: requests admitted in the previous tick and in this one
  roomBurst,    \* history: requests sent at this instant, and how many were answered 429
  authClock,    \* time at the authentication limiter, in ticks of AuthTickMs
  authLimit,    \* authLimiter: the counter of the client
  authInFlight, \* per kind: admitted requests whose response is not finished
  authBurst     \* history: kind and number of the requests sent at this instant, answered 429

roomLimiterVars == <<roomClock, roomLimit, roomLog, roomBurst>>

authLimiterVars == <<authClock, authLimit, authInFlight, authBurst>>

\* ------------------------------------------------------------------------
\* Room membership over HTTP (joinRoom): inputs and values
\* ------------------------------------------------------------------------
\* the users that send requests; the first of them creates the room
RoomUsers == {"u1", "u2"}

RoomCreator == "u1"

\* join requests that can be in flight together
JoinReqs == {"j1", "j2"}

RoomTypes == {"public", "private"}

\* maxParticipants of a new room: null (0 here) or a number
MaxParticipantsChoices == {0, 2}

\* Room.findById finds nothing
NoRoom == [exists |-> FALSE, roomType |-> "public", creator |-> "none",
           maxParticipants |-> 0, participants |-> <<>>, invitedUsers |-> {}]

IdleJoin == [pc |-> "idle", user |-> "none", room |-> NoRoom]

NoJoinResp == [status |-> 0, message |-> "", user |-> "none", wasParticipant |-> FALSE,
               before |-> <<>>, after |-> <<>>]

VARIABLES
  roomDoc,      \* the Room document of the database
  joinedRooms,  \* per user: how often the room is in the User document's joinedRooms
  joinReq,      \* per join request: position in joinRoom, its user, the room it read
  joinStart,    \* history, per join request: participants when the request arrived
  joinResp      \* the response of the last step of a join request, NoJoinResp if none

roomJoinVars == <<roomDoc, joinedRooms, joinReq, joinStart, joinResp>>

\* ------------------------------------------------------------------------
\* Chat messages over HTTP (createMessage): inputs and values
\* ------------------------------------------------------------------------
\* req.body.content of createMessage, data.message of send_message
Contents == {"m1", "m2"}

\* RoomStatus
RoomStatuses == {"scheduled", "live", "closed"}

IdleMsg == [pc |-> "idle", user |-> "none", content |-> "none"]

NoMsgResp == [status |-> 0, message |-> ""]

VARIABLES
  msgStore,      \* the Message collection: the contents of the saved messages
  msgReq,        \* the createMessage request in flight: the await it is suspended at
  msgResp,       \* the response of the last step of createMessage, NoMsgResp if none
  lastBroadcast  \* history: the message of the last receive_message emitted, "none" if none

messageVars == <<msgStore, msgReq, msgResp, lastBroadcast>>

\* the service variables other than those of the messages
otherServiceVars == <<cacheOpVars, httpVars, dbVars, roomLimiterVars, authLimiterVars,
                      roomJoinVars>>

serviceVars == <<otherServiceVars, messageVars>>

\* what the room controller leaves alone
notRoomJoinVars == <<lockoutVars, realtimeVars, cacheOpVars, httpVars, dbVars,
                     roomLimiterVars, authLimiterVars, messageVars>>

\* what the limiters leave alone
notLimiterVars == <<lockoutVars, realtimeVars, cacheOpVars, httpVars, dbVars, roomJoinVars,
                   messageVars>>

\* what the database connection leaves alone
notDbVars == <<lockoutVars, realtimeVars, cacheOpVars, httpVars, roomLimiterVars, authLimiterVars,
              roomJoinVars, messageVars>>

\* the realtime variables other than the two of the cache connection
presenceVars == <<sock, rooms, hd, partCache, onlineCache, received, emitted>>

\* what the direct cache operations leave alone
notCacheOpVars == <<lockoutVars, realtimeVars, httpVars, dbVars, roomLimiterVars, authLimiterVars,
                   roomJoinVars, messageVars>>

\* what the HTTP cache requests leave alone (besides isConnected)
notHttpVars == <<lockoutVars, presenceVars, cacheOpVars, dbVars, roomLimiterVars, authLimiterVars,
                roomJoinVars, messageVars>>

vars == <<lockoutVars, realtimeVars, serviceVars>>

\* ------------------------------------------------------------------------
\* Pure helpers
\* ------------------------------------------------------------------------
\* Math.ceil(a / b) for a >= 0, b > 0
Ceil(a, b) == (a + b - 1) \div b

\* Math.ceil((lockedUntil.getTime() - Date.now()) / 1000 / 60): whole minutes
RemainingTime(lockedUntil, t) == Ceil((lockedUntil - t) * MsPerTick, 1000 * 60)

\* const identifier = req.body.login?.toLowerCase() || req.ip
LockoutIdentifier(l) == IF ToLower(l) # "" THEN ToLower(l) ELSE ClientIp

\* const identifier = login.toLowerCase()
LoginIdentifier(l) == ToLower(l)

\* attempt && attempt.lockedUntil && new Date() < attempt.lockedUntil
IsLocked(a, t) == a.present /\ a.lockedUntil # NoTime /\ t < a.lockedUntil

\* FailedAttempt with the threshold test off by one (count > 10)
FailedAttemptLate(a, t) ==
  LET c == a.count + 1 IN
  [present |-> TRUE, count |-> c, lastAttempt |-> t,
   lockedUntil |-> IF c > LockThreshold THEN t + LockoutDuration ELSE a.lockedUntil]

\* the failure branch of recordLoginAttempt: the record after the call
FailedAttempt(a, t) ==
  LET c == a.count + 1 IN
  [present |-> TRUE, count |-> c, lastAttempt |-> t,
   lockedUntil |-> IF c >= LockThreshold THEN t + LockoutDuration ELSE a.lockedUntil]

\* RecordLoginAttempt whose success branch resets the count but keeps the entry
RecordLoginAttemptKeeps(m, id, success, t) ==
  IF success THEN [m EXCEPT ![id].count = 0]
  ELSE [m EXCEPT ![id] = FailedAttempt(m[id], t)]

\* recordLoginAttempt(identifier, success): the map after the call
RecordLoginAttempt(m, id, success, t) ==
  IF success THEN [m EXCEPT ![id] = NoAttempt]
  ELSE [m EXCEPT ![id] = FailedAttempt(m[id], t)]

\* history kept beside the map: failed attempts recorded since the record was absent
RecordFailures(f, id, success) ==
  IF success THEN [f EXCEPT ![id] = 0] ELSE [f EXCEPT ![id] = f[id] + 1]

\* one entry of the hourly sweep: TRUE when the entry is deleted
SweepDeletes(a, t) ==
  a.present /\ ( (a.lockedUntil # NoTime /\ t > a.lockedUntil)
                 \/ (t - a.lastAttempt > StaleAfter) )

Phase(t) == t % SweepInterval

\* ------------------------------------------------------------------------
\* Initial state: the module has just been loaded
\* ------------------------------------------------------------------------
Init ==
  /\ now = 0
  /\ nextSweep = SweepInterval
  /\ loginAttempts = [i \in Identifiers |-> NoAttempt]
  /\ failures = [i \in Identifiers |-> 0]
  /\ req = [r \in Reqs |-> IdleReq]
  /\ response = NoResponse
  /\ sock = [s \in Sockets |-> NewSocket]
  /\ rooms = [s \in Sockets |-> {}]
  /\ hd = [s \in Sockets |-> IdleHandler]
  /\ partCache = [r \in RoomPayloads |-> NoEntry]
  /\ onlineCache = [u \in Users |-> NoOnline]
  /\ isConnected = FALSE
  /\ cacheMissed = FALSE
  /\ received = <<>>
  /\ emitted = {}
  /\ kv = [k \in OpKeys |-> NoEntry]
  /\ cacheCall = IdleCall
  /\ cacheOutcome = NoOutcome
  /\ roomVersion = 0
  /\ apiCache = [k \in ApiKeys |-> NoApiEntry]
  /\ getReq = IdleGet
  /\ mutReq = IdleMutation
  /\ httpResp = NoHttpResp
  /\ dbPc = "idle"
  /\ connectionAttempts = 0
  /\ dbIsConnected = FALSE
  /\ maxRetries = DefaultMaxRetries
  /\ retryDelay = DefaultRetryDelay
  /\ attemptsMade = 0
  /\ failedAttempts = 0
  /\ failureRun = 0
  /\ delays = <<>>
  /\ exitCode = -1
  /\ roomClock = 0
  /\ roomLimit = NoHits
  /\ roomLog = [prev |-> 0, cur |-> 0]
  /\ roomBurst = NoBurst
  /\ authClock = 0
  /\ authLimit = NoHits
  /\ authInFlight = [k \in AuthKinds |-> 0]
  /\ authBurst = NoAuthBurst
  /\ roomDoc = NoRoom
  /\ joinedRooms = [u \in RoomUsers |-> 0]
  /\ joinReq = [j \in JoinReqs |-> IdleJoin]
  /\ joinStart = [j \in JoinReqs |-> <<>>]
  /\ joinResp = NoJoinResp
  /\ msgStore = {}
  /\ msgReq = IdleMsg
  /\ msgResp = NoMsgResp
  /\ lastBroadcast = "none"

\* ------------------------------------------------------------------------
\* The clock and the hourly sweep
\* ------------------------------------------------------------------------
Tick ==
  /\ now < MaxTime
  /\ now < nextSweep
  /\ (Phase(now) < FineWindow \/ Phase(now) = SweepInterval - 1)
  /\ now' = now + 1
  /\ response' = NoResponse
  /\ UNCHANGED <<nextSweep, loginAttempts, failures, req>>
  /\ UNCHANGED <<realtimeVars, serviceVars>>

\* the quiet stretch of the hour, in which no request arrives: the clock moves
\* on to the last tick before the sweep
TickIdle ==
  /\ Phase(now) = FineWindow
  /\ nextSweep - 1 <= MaxTime
  /\ now' = nextSweep - 1
  /\ response' = NoResponse
  /\ UNCHANGED <<nextSweep, loginAttempts, failures, req>>
  /\ UNCHANGED <<realtimeVars, serviceVars>>

Sweep ==
  /\ now = nextSweep
  /\ nextSweep' = nextSweep + SweepInterval
  /\ loginAttempts' = [i \in Identifiers |->
        IF SweepDeletes(loginAttempts[i], now) THEN NoAttempt ELSE loginAttempts[i]]
  /\ failures' = [i \in Identifiers |->
        IF SweepDeletes(loginAttempts[i], now) THEN 0 ELSE failures[i]]
  /\ response' = NoResponse
  /\ UNCHANGED <<now, req>>
  /\ UNCHANGED <<realtimeVars, serviceVars>>

\* ------------------------------------------------------------------------
\* POST /api/auth/login: checkAccountLockout, then login
\* ------------------------------------------------------------------------
\* a request with this body arrives: checkAccountLockout runs, and on next() the
\* login handler runs up to its await of User.findOne
CheckAccountLockout(r, body) ==
  /\ req[r].pc = "idle"
  /\ loginAttempts[LoginIdentifier(body.login)].count < MaxCount
  /\ LET attempt == loginAttempts[LockoutIdentifier(body.login)] IN
     IF IsLocked(attempt, now)
     THEN /\ response' = [NoResponse EXCEPT !.status = 423, !.login = body.login,
                             !.message = "Account temporarily locked",
                             !.remaining = RemainingTime(attempt.lockedUntil, now)]
          /\ UNCHANGED req
     ELSE /\ req' = [req EXCEPT ![r] = [pc |-> "findOne", login |-> body.login,
                                        password |-> body.password]]
          /\ response' = NoResponse
  /\ UNCHANGED <<now, nextSweep, loginAttempts, failures>>
  /\ UNCHANGED <<realtimeVars, serviceVars>>

\* the answer to an unknown login, telling that the account does not exist
UnknownUserResponseReveals == [status |-> 404, message |-> "User not found"]

\* if (!user): res.status(401).json({ success: false, message: "Invalid credentials" })
UnknownUserResponse == [status |-> 401, message |-> "Invalid credentials"]

\* if (!isPasswordValid): res.status(401).json({ success: false, message: "Invalid credentials" })
WrongPasswordResponse == [status |-> 401, message |-> "Invalid credentials"]

\* login resumes after await User.findOne; dbOk = FALSE: the query rejects
LoginFindOne(r, dbOk) ==
  /\ req[r].pc = "findOne"
  /\ LET user == FindOne(req[r].login)
         identifier == LoginIdentifier(req[r].login) IN
     IF ~dbOk
     THEN /\ req' = [req EXCEPT ![r] = IdleReq]
          /\ response' = [NoResponse EXCEPT !.status = 500, !.login = req[r].login,
                             !.message = "Login failed"]
          /\ UNCHANGED <<loginAttempts, failures>>
     ELSE IF user = "none"
     THEN /\ loginAttempts' = RecordLoginAttempt(loginAttempts, identifier, FALSE, now)
          /\ failures' = RecordFailures(failures, identifier, FALSE)
          /\ req' = [req EXCEPT ![r] = IdleReq]
          /\ response' = [NoResponse EXCEPT !.status = UnknownUserResponse.status,
                             !.message = UnknownUserResponse.message,
                             !.login = req[r].login,
                             !.wasLocked = (loginAttempts[identifier].lockedUntil # NoTime)]
     ELSE /\ req' = [req EXCEPT ![r].pc = "compare"]
          /\ response' = NoResponse
          /\ UNCHANGED <<loginAttempts, failures>>
  /\ UNCHANGED <<now, nextSweep>>
  /\ UNCHANGED <<realtimeVars, serviceVars>>

\* login resumes after await user.comparePassword
LoginCompare(r) ==
  /\ req[r].pc = "compare"
  /\ LET identifier == LoginIdentifier(req[r].login)
         valid == ComparePassword(FindOne(req[r].login), req[r].password) IN
     /\ loginAttempts' = RecordLoginAttempt(loginAttempts, identifier, valid, now)
     /\ failures' = RecordFailures(failures, identifier, valid)
     /\ req' = [req EXCEPT ![r] = IdleReq]
     /\ response' = [NoResponse EXCEPT !.status = IF valid THEN 200
                                                   ELSE WrongPasswordResponse.status,
                        !.message = IF valid THEN "" ELSE WrongPasswordResponse.message,
                        !.login = req[r].login,
                        !.wasLocked = (loginAttempts[identifier].lockedUntil # NoTime)]
  /\ UNCHANGED <<now, nextSweep>>
  /\ UNCHANGED <<realtimeVars, serviceVars>>

LoginSteps(r) ==
  \/ \E dbOk \in BOOLEAN : LoginFindOne(r, dbOk)
  \/ LoginCompare(r)

NextLockout ==
  \/ Tick
  \/ TickIdle
  \/ Sweep
  \/ \E r \in Reqs, body \in NamedBodies : CheckAccountLockout(r, body)
  \/ \E r \in Reqs : LoginSteps(r)

SpecLockout == Init /\ [][NextLockout]_vars

NextLockoutEmpty ==
  \/ Tick
  \/ TickIdle
  \/ Sweep
  \/ \E r \in Reqs, body \in EmptyBodies : CheckAccountLockout(r, body)
  \/ \E r \in Reqs : LoginSteps(r)

SpecLockoutEmpty == Init /\ [][NextLockoutEmpty]_vars

\* ------------------------------------------------------------------------
\* Properties of the lockout tracker
\* ------------------------------------------------------------------------
\* the login handler starts for request r in this step (checkAccountLockout called next())
HandlerStarts(r) == req[r].pc = "idle" /\ req'[r].pc = "findOne"

\* a failed attempt for identifier x is recorded in this step
FailureRecorded(x) == failures'[x] = failures[x] + 1

\* C1: while fewer than 10 failed attempts have been recorded for X since its
\* record was last absent, X has no lockedUntil and checkAccountLockout lets the
\* requests for X through (no 423); the 10th failed attempt sets lockedUntil to
\* the time of that attempt plus the lockout duration (5 minutes).
C1_LockoutThreshold ==
  [][\A x \in Identifiers :
       /\ failures'[x] < LockThreshold =>
            /\ loginAttempts'[x].lockedUntil = NoTime
            /\ ~IsLocked(loginAttempts'[x], now')
            /\ ~(response'.status = 423 /\ LockoutIdentifier(response'.login) = x)
       /\ (FailureRecorded(x) /\ failures'[x] = LockThreshold) =>
            loginAttempts'[x].lockedUntil = now + LockoutDuration
    ]_vars

\* the 10th failure has just locked the identifier
C1_Witness ==
  \E x \in Identifiers :
     /\ failures[x] = LockThreshold
     /\ loginAttempts[x].count = LockThreshold
     /\ loginAttempts[x].lockedUntil = now + LockoutDuration
     /\ response.status = 401

\* C2: while the identifier X of a login request is locked, the request is
\* answered 423 with the remaining lockout time when it reaches
\* checkAccountLockout, and the login handler does not run for it (no user
\* lookup, no password comparison, no recordLoginAttempt).
C2_LockedRejected ==
  [][/\ \A r \in Reqs :
          HandlerStarts(r) => ~IsLocked(loginAttempts[LoginIdentifier(req'[r].login)], now)
     /\ response'.status = 423 =>
          /\ IsLocked(loginAttempts[LoginIdentifier(response'.login)], now)
          /\ response'.remaining =
               RemainingTime(loginAttempts[LoginIdentifier(response'.login)].lockedUntil, now)
          /\ UNCHANGED <<req, loginAttempts>>
    ]_vars

\* C3: a successful authentication for X deletes X's record whatever its count
\* or lockedUntil was: the failure count is 0 afterwards, and the next failed
\* attempt for X counts as the first.
C3_SuccessResets ==
  [][/\ response'.status = 200 =>
          /\ loginAttempts'[LoginIdentifier(response'.login)] = NoAttempt
          /\ failures'[LoginIdentifier(response'.login)] = 0
     /\ \A x \in Identifiers :
          (FailureRecorded(x) /\ failures[x] = 0) =>
             /\ ~loginAttempts[x].present
             /\ loginAttempts'[x].count = 1
             /\ loginAttempts'[x].lockedUntil = NoTime
    ]_vars

\* a login that passed checkAccountLockout before the identifier was locked has
\* just succeeded and deleted the locked record
C3_Witness ==
  /\ response.status = 200
  /\ response.wasLocked
  /\ ~loginAttempts[LoginIdentifier(response.login)].present

\* C4: concurrent failed attempts for one identifier: the count equals the
\* number of failures recorded (no lost update), and a failure recorded by a
\* request of the batch while the identifier is locked does not set
\* lockedUntil again.
C4_ConcurrentIncrement ==
  [][\A x \in Identifiers : FailureRecorded(x) =>
        /\ loginAttempts'[x].count = failures'[x]
        /\ IsLocked(loginAttempts[x], now) =>
              loginAttempts'[x].lockedUntil = loginAttempts[x].lockedUntil
    ]_vars

\* a login handler ends: no user was found for the login, or the password of
\* the user found did not match
LoginRejected(r) ==
  /\ req[r].pc \in {"findOne", "compare"}
  /\ req'[r].pc = "idle"
  /\ response'.status \notin {200, 500}

\* C20 (a failed login does not tell whether the account exists): a login
\* with an unknown name and a login with a known name and a wrong password are
\* both answered 401 "Invalid credentials", and both change the record of
\* their identifier as one failed attempt does.
C20_NoAccountEnumeration ==
  [][\A r \in Reqs : LoginRejected(r) =>
        /\ response'.status = 401
        /\ response'.message = "Invalid credentials"
        /\ loginAttempts'[LoginIdentifier(req[r].login)] =
              FailedAttempt(loginAttempts[LoginIdentifier(req[r].login)], now)
    ]_vars

\* an unknown login ("Alice") has just been answered 401 while a request with
\* the known login and a wrong password is in flight, the record of their
\* common identifier counting both kinds of failure
C20_Witness ==
  /\ response.status = 401
  /\ response.login = "Alice"
  /\ FindOne("Alice") = "none"
  /\ \E r \in Reqs : req[r].pc = "compare" /\ req[r].login = "alice" /\ req[r].password = "bad"
  /\ loginAttempts["alice"].count >= 2

\* the lockout of the record has run out
LockExpired(a, t) == a.present /\ a.lockedUntil # NoTime /\ t >= a.lockedUntil

\* C23 (lockout record invariant): a record of the login-attempt map has
\* lockedUntil only if its failure count is at or above the lockout threshold,
\* and a lockedUntil that is present lies in the future.
C23_LockoutRecordInvariant ==
  \A i \in Identifiers :
    (loginAttempts[i].present /\ loginAttempts[i].lockedUntil # NoTime) =>
      /\ loginAttempts[i].count >= LockThreshold
      /\ loginAttempts[i].lockedUntil > now

\* C24 (lockout cycle): once the lockout of X has expired X is back in Normal
\* without a successful login or a sweep: requests for X are let through, and
\* a single further failed attempt does not lock X.
C24_ExpiredLockIsNormal ==
  [][\A x \in Identifiers :
       LockExpired(loginAttempts[x], now) =>
         /\ \A r \in Reqs, body \in NamedBodies :
              (CheckAccountLockout(r, body) /\ LockoutIdentifier(body.login) = x)
                => response'.status # 423
         /\ FailureRecorded(x) => ~IsLocked(loginAttempts'[x], now')]_vars

\* ------------------------------------------------------------------------
\* Realtime: socket.io rooms, cache service, handlers of src/index.ts
\* ------------------------------------------------------------------------
\* io.to(room): the sockets in the adapter room
IoTo(rm, room) == {t \in Sockets : room \in rm[t]}

\* socket.to(room), with the io.to of the broken broadcast flag
SocketToAll(rm, s, room) == IoTo(rm, room)

\* socket.to(room): the sockets in the adapter room except the socket itself
SocketTo(rm, s, room) == IoTo(rm, room) \ {s}

Emit(ev, room, s, to, again) ==
  [event |-> ev, room |-> room, from |-> s, to |-> to, again |-> again]

\* the tail of the join_room handler: socket.emit("room_joined"), socket.to(roomId).emit
JoinEmits(rm, s, room, again) ==
  { Emit("room_joined", room, s, {s}, again),
    Emit("user_joined_room", room, s, SocketTo(rm, s, room), again) }

\* the tail of the leave_room handler
LeaveEmits(rm, s, room) ==
  { Emit("room_left", room, s, {s}, FALSE),
    Emit("user_left_room", room, s, SocketTo(rm, s, room), FALSE) }

\* handlers of the redis client's "connect" and "ready" events
RedisUp ==
  /\ ~isConnected
  /\ isConnected' = TRUE
  /\ emitted' = {}
  /\ UNCHANGED <<sock, rooms, hd, received, partCache, onlineCache, cacheMissed>>
  /\ UNCHANGED <<lockoutVars, serviceVars>>

\* handlers of the redis client's "error" and "close" events
RedisDown ==
  /\ isConnected
  /\ isConnected' = FALSE
  /\ emitted' = {}
  /\ UNCHANGED <<sock, rooms, hd, received, partCache, onlineCache, cacheMissed>>
  /\ UNCHANGED <<lockoutVars, serviceVars>>

\* io.use middleware, up to its await of User.findById
Connect(s, token) ==
  /\ sock[s].state = "new"
  /\ IF token = "none" \/ JwtVerify(token) = "invalid"
     THEN sock' = [sock EXCEPT ![s] = [state |-> "rejected", token |-> token,
                                       user |-> "none", error |-> "Authentication error"]]
     ELSE sock' = [sock EXCEPT ![s] = [state |-> "findById", token |-> token,
                                       user |-> "none", error |-> "none"]]
  /\ emitted' = {}
  /\ UNCHANGED <<rooms, hd, received, partCache, onlineCache, isConnected, cacheMissed>>
  /\ UNCHANGED <<lockoutVars, serviceVars>>

\* the middleware with socket.join moved before the test of the user found
AuthFindByIdJoinsFirst(s, dbOk) ==
  /\ sock[s].state = "findById"
  /\ LET user == FindById(JwtVerify(sock[s].token)) IN
     IF ~dbOk
     THEN /\ sock' = [sock EXCEPT ![s].state = "rejected", ![s].error = "Authentication error"]
          /\ UNCHANGED <<rooms, onlineCache, cacheMissed>>
     ELSE IF user = "none"
     THEN /\ sock' = [sock EXCEPT ![s].state = "rejected", ![s].error = "User not found"]
          /\ rooms' = [rooms EXCEPT ![s] = {JwtVerify(sock[s].token)}]
          /\ UNCHANGED <<onlineCache, cacheMissed>>
     ELSE /\ rooms' = [rooms EXCEPT ![s] = {user}]
          /\ IF isConnected
             THEN /\ onlineCache' = [onlineCache EXCEPT ![user] =
                                       [present |-> TRUE, socketId |-> s]]
                  /\ sock' = [sock EXCEPT ![s].state = "setOnline", ![s].user = user]
                  /\ UNCHANGED cacheMissed
             ELSE /\ sock' = [sock EXCEPT ![s].state = "open", ![s].user = user]
                  /\ cacheMissed' = TRUE
                  /\ UNCHANGED onlineCache
  /\ emitted' = {}
  /\ UNCHANGED <<hd, received, partCache, isConnected>>
  /\ UNCHANGED <<lockoutVars, serviceVars>>

\* the middleware resumes after await User.findById (dbOk = FALSE: the query
\* rejects): socket.join(userId), socket.user, setOnlineUser up to its redis call;
\* with isConnected false setOnlineUser returns at once and next() is called
AuthFindById(s, dbOk) ==
  /\ sock[s].state = "findById"
  /\ LET user == FindById(JwtVerify(sock[s].token)) IN
     IF ~dbOk
     THEN /\ sock' = [sock EXCEPT ![s].state = "rejected", ![s].error = "Authentication error"]
          /\ UNCHANGED <<rooms, onlineCache, cacheMissed>>
     ELSE IF user = "none"
     THEN /\ sock' = [sock EXCEPT ![s].state = "rejected", ![s].error = "User not found"]
          /\ UNCHANGED <<rooms, onlineCache, cacheMissed>>
     ELSE /\ rooms' = [rooms EXCEPT ![s] = {user}]
          /\ IF isConnected
             THEN /\ onlineCache' = [onlineCache EXCEPT ![user] =
                                       [present |-> TRUE, socketId |-> s]]
                  /\ sock' = [sock EXCEPT ![s].state = "setOnline", ![s].user = user]
                  /\ UNCHANGED cacheMissed
             ELSE /\ sock' = [sock EXCEPT ![s].state = "open", ![s].user = user]
                  /\ cacheMissed' = TRUE
                  /\ UNCHANGED onlineCache
  /\ emitted' = {}
  /\ UNCHANGED <<hd, received, partCache, isConnected>>
  /\ UNCHANGED <<lockoutVars, serviceVars>>

\* the middleware resumes after await cacheService.setOnlineUser: next(), the
\* "connection" listener registers the handlers of the socket
AuthNext(s) ==
  /\ sock[s].state = "setOnline"
  /\ sock' = [sock EXCEPT ![s].state = "open"]
  /\ emitted' = {}
  /\ UNCHANGED <<rooms, hd, received, partCache, onlineCache, isConnected, cacheMissed>>
  /\ UNCHANGED <<lockoutVars, serviceVars>>

\* join_room handler up to the redis GET of addRoomParticipant; with
\* isConnected false addRoomParticipant returns at once and the handler emits
JoinRoomHandler(s, room) ==
  /\ sock[s].state = "open"
  /\ hd[s].pc = "idle"
  /\ Len(partCache[room].list) < MaxList
  /\ rooms' = [rooms EXCEPT ![s] = @ \cup {room}]
  /\ IF isConnected
     THEN /\ hd' = [hd EXCEPT ![s] = [pc |-> "get", kind |-> "join", room |-> room,
                                      participants |-> partCache[room].list,
                                      again |-> (room \in rooms[s])]]
          /\ emitted' = {}
          /\ UNCHANGED cacheMissed
     ELSE /\ emitted' = JoinEmits(rooms', s, room, room \in rooms[s])
          /\ cacheMissed' = TRUE
          /\ UNCHANGED hd
  /\ UNCHANGED <<sock, partCache, onlineCache, isConnected>>
  /\ UNCHANGED <<lockoutVars, serviceVars>>

\* socket.leave that leaves the socket in the adapter room
SocketLeaveKeeps(rs, room) == rs

\* socket.leave(roomId): the rooms of the socket afterwards
SocketLeave(rs, room) == rs \ {room}

\* leave_room handler up to the redis GET of removeRoomParticipant
LeaveRoomHandler(s, room) ==
  /\ sock[s].state = "open"
  /\ hd[s].pc = "idle"
  /\ rooms' = [rooms EXCEPT ![s] = SocketLeave(@, room)]
  /\ IF isConnected
     THEN /\ hd' = [hd EXCEPT ![s] = [pc |-> "get", kind |-> "leave", room |-> room,
                                      participants |-> partCache[room].list,
                                      again |-> FALSE]]
          /\ emitted' = {}
          /\ UNCHANGED cacheMissed
     ELSE /\ emitted' = LeaveEmits(rooms', s, room)
          /\ cacheMissed' = TRUE
          /\ UNCHANGED hd
  /\ UNCHANGED <<sock, partCache, onlineCache, isConnected>>
  /\ UNCHANGED <<lockoutVars, serviceVars>>

\* the array addRoomParticipant / removeRoomParticipant passes to set, <<>> with
\* written = FALSE when it does not call set
ParticipantsToWrite(kind, participants, userId) ==
  IF kind = "join"
  THEN IF ~Includes(participants, userId)
       THEN [written |-> TRUE, list |-> Append(participants, userId)]
       ELSE [written |-> FALSE, list |-> <<>>]
  ELSE [written |-> TRUE, list |-> FilterOut(participants, userId)]

\* the tail of the handler of socket s
HandlerEmits(rm, s) ==
  IF hd[s].kind = "join" THEN JoinEmits(rm, s, hd[s].room, hd[s].again)
  ELSE LeaveEmits(rm, s, hd[s].room)

\* the handler resumes after the redis GET: the array is changed and written
\* with SETEX (set returns at once when isConnected is false by now)
CacheGetReplyHandler(s) ==
  /\ hd[s].pc = "get"
  /\ LET w == ParticipantsToWrite(hd[s].kind, hd[s].participants, ObjectId(sock[s].user)) IN
     IF w.written /\ isConnected
     THEN /\ partCache' = [partCache EXCEPT ![hd[s].room] =
                 [present |-> TRUE,
                  list |-> [i \in 1..Len(w.list) |-> JsonRoundTrip(w.list[i])]]]
          /\ hd' = [hd EXCEPT ![s].pc = "set", ![s].participants = <<>>]
          /\ emitted' = {}
          /\ UNCHANGED cacheMissed
     ELSE /\ hd' = [hd EXCEPT ![s] = IdleHandler]
          /\ emitted' = HandlerEmits(rooms, s)
          /\ cacheMissed' = (cacheMissed \/ w.written)
          /\ UNCHANGED partCache
  /\ UNCHANGED <<sock, rooms, onlineCache, isConnected>>
  /\ UNCHANGED <<lockoutVars, serviceVars>>

\* the handler resumes after the redis SETEX and emits
CacheSetReplyHandler(s) ==
  /\ hd[s].pc = "set"
  /\ hd' = [hd EXCEPT ![s] = IdleHandler]
  /\ emitted' = HandlerEmits(rooms, s)
  /\ UNCHANGED <<sock, rooms, partCache, onlineCache, isConnected, cacheMissed>>
  /\ UNCHANGED <<lockoutVars, serviceVars>>

\* the handlers as steps of the server, the order of the events not recorded
JoinRoom(s, room) == JoinRoomHandler(s, room) /\ UNCHANGED received

LeaveRoom(s, room) == LeaveRoomHandler(s, room) /\ UNCHANGED received

CacheGetReply(s) == CacheGetReplyHandler(s) /\ UNCHANGED received

CacheSetReply(s) == CacheSetReplyHandler(s) /\ UNCHANGED received

\* the suspended handlers in the order of their events after a step: the
\* handlers that completed are gone, the one that started is last
ReceivedAfter ==
  LET kept == SelectSeq(received, LAMBDA t : hd'[t].pc # "idle")
      started == {t \in Sockets : hd[t].pc = "idle" /\ hd'[t].pc # "idle"}
  IN IF started = {} THEN kept ELSE Append(kept, CHOOSE t \in started : TRUE)

\* the same steps with the order of the events recorded
JoinRoomInOrder(s, room) == JoinRoomHandler(s, room) /\ received' = ReceivedAfter

LeaveRoomInOrder(s, room) == LeaveRoomHandler(s, room) /\ received' = ReceivedAfter

CacheGetReplyInOrder(s) == CacheGetReplyHandler(s) /\ received' = ReceivedAfter

CacheSetReplyInOrder(s) == CacheSetReplyHandler(s) /\ received' = ReceivedAfter

\* send_message handler: io.to(roomId).emit("receive_message", ...)
SendMessageHandler(s, roomId) ==
  /\ sock[s].state = "open"
  /\ emitted' = IF roomId = "none" THEN {}
                ELSE {Emit("receive_message", roomId, s, IoTo(rooms, roomId), FALSE)}
  /\ UNCHANGED <<sock, rooms, hd, received, partCache, onlineCache, isConnected, cacheMissed>>
  /\ UNCHANGED <<lockoutVars, otherServiceVars>>

\* send_message, the payload's message left out
SendMessage(s, roomId) == SendMessageHandler(s, roomId) /\ UNCHANGED messageVars

\* send_message with the message of the payload: it is passed on as it came
SendMessageContent(s, roomId, content) ==
  /\ SendMessageHandler(s, roomId)
  /\ lastBroadcast' = IF roomId = "none" THEN lastBroadcast ELSE content
  /\ UNCHANGED <<msgStore, msgReq, msgResp>>

\* send_reaction handler
SendReaction(s, roomId) ==
  /\ sock[s].state = "open"
  /\ emitted' = {Emit("receive_reaction", roomId, s, IoTo(rooms, roomId), FALSE)}
  /\ UNCHANGED <<sock, rooms, hd, received, partCache, onlineCache, isConnected, cacheMissed>>
  /\ UNCHANGED <<lockoutVars, serviceVars>>

\* the socket closes: socket.io takes it out of its rooms, then the disconnect
\* handler runs removeOnlineUser
Disconnect(s) ==
  /\ sock[s].state = "open"
  /\ sock' = [sock EXCEPT ![s].state = "closed"]
  /\ rooms' = [rooms EXCEPT ![s] = {}]
  /\ IF isConnected
     THEN /\ onlineCache' = [onlineCache EXCEPT ![sock[s].user] = NoOnline]
          /\ UNCHANGED cacheMissed
     ELSE /\ cacheMissed' = TRUE
          /\ UNCHANGED onlineCache
  /\ emitted' = {}
  /\ UNCHANGED <<hd, received, partCache, isConnected>>
  /\ UNCHANGED <<lockoutVars, serviceVars>>

NextRealtime ==
  \/ RedisUp
  \/ RedisDown
  \/ \E s \in Sockets, token \in Tokens : Connect(s, token)
  \/ \E s \in Sockets, dbOk \in BOOLEAN : AuthFindById(s, dbOk)
  \/ \E s \in Sockets : AuthNext(s)
  \/ \E s \in Sockets, room \in RoomIds : JoinRoom(s, room)
  \/ \E s \in Sockets, room \in RoomIds : LeaveRoom(s, room)
  \/ \E s \in Sockets : CacheGetReply(s)
  \/ \E s \in Sockets : CacheSetReply(s)
  \/ \E s \in Sockets, roomId \in SendTargets : SendMessage(s, roomId)
  \/ \E s \in Sockets, roomId \in SendTargets : SendReaction(s, roomId)
  \/ \E s \in Sockets : Disconnect(s)

SpecRealtime == Init /\ [][NextRealtime]_vars

\* authenticated sockets that send events without a roomId, the cache connected
NextMalformed ==
  \/ RedisUp
  \/ \E s \in Sockets, token \in {"tok_u1", "tok_u2"} : Connect(s, token)
  \/ \E s \in Sockets : AuthFindById(s, TRUE)
  \/ \E s \in Sockets : AuthNext(s)
  \/ \E s \in Sockets : JoinRoom(s, "none")
  \/ \E s \in Sockets : LeaveRoom(s, "none")
  \/ \E s \in Sockets : CacheGetReply(s)
  \/ \E s \in Sockets : CacheSetReply(s)
  \/ \E s \in Sockets : SendMessage(s, "none")
  \/ \E s \in Sockets : SendReaction(s, "none")

SpecMalformed == Init /\ [][NextMalformed]_vars

\* authenticated sockets that join and leave the room, the cache connected,
\* with the order of their events recorded
NextOrdering ==
  \/ RedisUp
  \/ \E s \in Sockets, token \in {"tok_u1", "tok_u2"} : Connect(s, token)
  \/ \E s \in Sockets : AuthFindById(s, TRUE)
  \/ \E s \in Sockets : AuthNext(s)
  \/ \E s \in Sockets, room \in RoomIds : JoinRoomInOrder(s, room)
  \/ \E s \in Sockets, room \in RoomIds : LeaveRoomInOrder(s, room)
  \/ \E s \in Sockets : CacheGetReplyInOrder(s)
  \/ \E s \in Sockets : CacheSetReplyInOrder(s)
  \/ \E s \in Sockets : Disconnect(s)

SpecOrdering == Init /\ [][NextOrdering]_vars

\* ------------------------------------------------------------------------
\* Cache service: the public operations called directly
\* ------------------------------------------------------------------------
\* get whose catch throws the error again
GetResultThrows(connected, failed, entry) ==
  IF ~connected THEN "null"
  ELSE IF failed THEN "raised"
  ELSE IF entry.present THEN "value" ELSE "null"

\* what get returns: null when not connected, null from its catch when
\* redis.get is rejected, JSON.parse(data) when data is there, else null
GetResult(connected, failed, entry) ==
  IF ~connected THEN "null"
  ELSE IF failed THEN "null"
  ELSE IF entry.present THEN "value" ELSE "null"

\* what set and del return: nothing, also from their catch
VoidResult(connected, failed) == "done"

\* invalidateRoomCache after await this.redis.keys(...): no try around it
KeysResult(failed) == IF failed THEN "raised" ELSE "done"

Outcome(op, result, connected, failed) ==
  [op |-> op, result |-> result, connected |-> connected, failed |-> failed]

\* a public operation is called and runs to its first redis command (ok: the
\* command is carried out); with isConnected false it returns at once
CacheCall(op, key, value, ok) ==
  /\ cacheCall.pc = "idle"
  /\ LET k == KeyOf(op, key) IN
     IF ~isConnected
     THEN /\ cacheOutcome' = Outcome(op, IF op = "get" THEN GetResult(FALSE, FALSE, NoEntry)
                                         ELSE VoidResult(FALSE, FALSE), FALSE, FALSE)
          /\ UNCHANGED <<kv, cacheCall>>
     ELSE /\ cacheOutcome' = NoOutcome
          /\ CASE op \in {"get", "addRoomParticipant", "removeRoomParticipant"} ->
                    /\ cacheCall' = [pc |-> "redisGet", op |-> op, key |-> k, value |-> value,
                                     data |-> IF ok THEN kv[k] ELSE NoEntry, failed |-> ~ok]
                    /\ UNCHANGED kv
               [] op \in {"set", "setOnlineUser"} ->
                    /\ cacheCall' = [pc |-> "redisSet", op |-> op, key |-> k, value |-> value,
                                     data |-> NoEntry, failed |-> ~ok]
                    /\ kv' = IF ok THEN [kv EXCEPT ![k] = [present |-> TRUE, list |-> value]]
                             ELSE kv
               [] op \in {"del", "removeOnlineUser"} ->
                    /\ cacheCall' = [pc |-> "redisDel", op |-> op, key |-> k, value |-> <<>>,
                                     data |-> NoEntry, failed |-> ~ok]
                    /\ kv' = IF ok THEN [kv EXCEPT ![k] = NoEntry] ELSE kv
               [] op = "invalidateRoomCache" ->
                    /\ cacheCall' = [pc |-> "redisKeys", op |-> op, key |-> k, value |-> <<>>,
                                     data |-> NoEntry, failed |-> ~ok]
                    /\ UNCHANGED kv
  /\ UNCHANGED notCacheOpVars

\* the operation resumes after its redis command (ok: the next command it
\* sends is carried out)
CacheReply(ok) ==
  /\ cacheCall.pc # "idle"
  /\ LET c == cacheCall IN
     CASE c.pc = "redisGet" /\ c.op = "get" ->
            /\ cacheOutcome' = Outcome(c.op, GetResult(TRUE, c.failed, c.data), TRUE, c.failed)
            /\ cacheCall' = IdleCall
            /\ UNCHANGED kv
       [] c.pc = "redisGet" /\ c.op # "get" ->
            LET participants == IF GetResult(TRUE, c.failed, c.data) = "value"
                                THEN c.data.list ELSE <<>>
                w == ParticipantsToWrite(IF c.op = "addRoomParticipant" THEN "join" ELSE "leave",
                                         participants, c.value[1])
            IN IF w.written /\ isConnected
               THEN /\ cacheCall' = [c EXCEPT !.pc = "redisSet", !.failed = c.failed \/ ~ok]
                    /\ kv' = IF ok THEN [kv EXCEPT ![c.key] = [present |-> TRUE, list |-> w.list]]
                             ELSE kv
                    /\ cacheOutcome' = NoOutcome
               ELSE /\ cacheOutcome' = Outcome(c.op, VoidResult(isConnected, c.failed),
                                               TRUE, c.failed)
                    /\ cacheCall' = IdleCall
                    /\ UNCHANGED kv
       [] c.pc \in {"redisSet", "redisDel", "redisDels"} ->
            /\ cacheOutcome' = Outcome(c.op, VoidResult(TRUE, c.failed), TRUE, c.failed)
            /\ cacheCall' = IdleCall
            /\ UNCHANGED kv
       [] c.pc = "redisKeys" ->
            IF KeysResult(c.failed) = "raised" \/ ~isConnected
            THEN /\ cacheOutcome' = Outcome(c.op, KeysResult(c.failed), TRUE, c.failed)
                 /\ cacheCall' = IdleCall
                 /\ UNCHANGED kv
            ELSE /\ cacheCall' = [c EXCEPT !.pc = "redisDels", !.failed = ~ok]
                 /\ kv' = IF ok
                          THEN [k \in OpKeys |-> IF k \in RoomListKeys \cup {c.key}
                                                 THEN NoEntry ELSE kv[k]]
                          ELSE kv
                 /\ cacheOutcome' = NoOutcome
  /\ UNCHANGED notCacheOpVars

NextCacheOps ==
  \/ RedisUp
  \/ RedisDown
  \/ \E op \in CacheOps, key \in OpKeys, value \in OpValues, ok \in BOOLEAN :
        CacheCall(op, key, value, ok)
  \/ \E ok \in BOOLEAN : CacheReply(ok)

SpecCacheOps == Init /\ [][NextCacheOps]_vars

\* C11 (cache fail-open): a get that found the service not connected or whose
\* redis command was rejected returns null, and a set or del in the same
\* situation returns without raising.
C11_CacheFailOpen ==
  (cacheOutcome.op \in {"get", "set", "del"} /\ (~cacheOutcome.connected \/ cacheOutcome.failed)) =>
     cacheOutcome.result = (IF cacheOutcome.op = "get" THEN "null" ELSE "done")

\* a get passed the connected test and its redis.get was rejected, while the
\* key holds a value
C11_Witness ==
  /\ cacheOutcome.op = "get"
  /\ cacheOutcome.connected
  /\ cacheOutcome.failed
  /\ cacheOutcome.result = "null"
  /\ \E k \in OpKeys : kv[k].present

\* C12 (no cache operation surfaces an error): no public operation of the
\* cache service ends by raising, whichever of its redis commands is rejected.
C12_NoErrorSurfaces ==
  cacheOutcome.result # "raised"

\* ------------------------------------------------------------------------
\* HTTP requests through cacheMiddleware and invalidateCache
\* ------------------------------------------------------------------------
\* cacheMiddleware for a GET request, up to its await of cacheService.get; when
\* the request is not cached, or get returns null at once because isConnected
\* is false, next() starts the handler, which awaits its query
HttpGet(path, user) ==
  /\ getReq.pc = "idle"
  /\ IF ~ShouldCache(path, user)
     THEN /\ getReq' = [IdleGet EXCEPT !.pc = "db", !.user = user, !.read = roomVersion]
          /\ UNCHANGED cacheMissed
     ELSE IF ~isConnected
     THEN /\ getReq' = [IdleGet EXCEPT !.pc = "db", !.user = user,
                                       !.key = GenerateCacheKey(path, user),
                                       !.caching = TRUE, !.read = roomVersion]
          /\ cacheMissed' = TRUE
     ELSE /\ getReq' = [IdleGet EXCEPT !.pc = "cacheGet", !.user = user,
                                       !.key = GenerateCacheKey(path, user),
                                       !.found = apiCache[GenerateCacheKey(path, user)]]
          /\ UNCHANGED cacheMissed
  /\ httpResp' = NoHttpResp
  /\ UNCHANGED <<roomVersion, apiCache, mutReq, isConnected>>
  /\ UNCHANGED notHttpVars

\* cacheMiddleware on a hit: return res.json(cachedResponse)
CacheHitResponse(found) ==
  [kind |-> "get", status |-> 200, body |-> found.body, fromCache |-> TRUE]

\* cacheMiddleware resumes after cacheService.get: a hit is sent, a miss
\* replaces res.json and calls next()
HttpCacheGetReply ==
  /\ getReq.pc = "cacheGet"
  /\ IF getReq.found.present
     THEN /\ httpResp' = CacheHitResponse(getReq.found)
          /\ getReq' = IdleGet
     ELSE /\ httpResp' = NoHttpResp
          /\ getReq' = [getReq EXCEPT !.pc = "db", !.caching = TRUE, !.read = roomVersion]
  /\ UNCHANGED <<roomVersion, apiCache, mutReq, isConnected, cacheMissed>>
  /\ UNCHANGED notHttpVars

\* the handler resumes after its query and calls res.status(...).json(data);
\* the res.json of cacheMiddleware first calls cacheService.set(key, data, ttl)
HttpHandlerReply(dbOk) ==
  /\ getReq.pc = "db"
  /\ LET r == HandlerResponse(getReq.read, dbOk) IN
     /\ httpResp' = [kind |-> "get", status |-> r.status, body |-> r.body, fromCache |-> FALSE]
     /\ IF getReq.caching /\ isConnected
        THEN /\ apiCache' = [apiCache EXCEPT ![getReq.key] =
                               [present |-> TRUE, body |-> r.body, fill |-> roomVersion,
                                actor |-> getReq.user]]
             /\ UNCHANGED cacheMissed
        ELSE /\ cacheMissed' = (cacheMissed \/ getReq.caching)
             /\ UNCHANGED apiCache
  /\ getReq' = IdleGet
  /\ UNCHANGED <<roomVersion, mutReq, isConnected>>
  /\ UNCHANGED notHttpVars

\* setRoomDetails / setRoomList called with the rooms as they are now
HelperSet(k) ==
  /\ IF isConnected
     THEN /\ apiCache' = [apiCache EXCEPT ![k] =
                            [present |-> TRUE, body |-> RoomsBody(roomVersion),
                             fill |-> roomVersion, actor |-> "none"]]
          /\ UNCHANGED cacheMissed
     ELSE /\ cacheMissed' = TRUE
          /\ UNCHANGED apiCache
  /\ httpResp' = NoHttpResp
  /\ UNCHANGED <<roomVersion, getReq, mutReq, isConnected>>
  /\ UNCHANGED notHttpVars

\* the ttl of SETEX runs out
CacheExpire(k) ==
  /\ apiCache[k].present
  /\ apiCache' = [apiCache EXCEPT ![k] = NoApiEntry]
  /\ httpResp' = NoHttpResp
  /\ UNCHANGED <<roomVersion, getReq, mutReq, isConnected, cacheMissed>>
  /\ UNCHANGED notHttpVars

\* patterns of invalidateRoomCache = invalidateCache(["room:details", "room:list"])
RoomPatterns == {"room:details", "room:list"}

\* the cache operation the res.json of invalidateCache calls for a pattern,
\* for a request with params.roomId and a user
InvalidationOf(pattern) ==
  CASE pattern = "room:details" -> "invalidateRoomCache"
    [] pattern = "user:profile" -> "invalidateUserProfile"
    [] pattern = "messages" -> "invalidateMessageHistory"
    [] OTHER -> "none"

\* redis.keys(`room:list:*`)
KeysMatching(cache, prefix) == {k \in ApiKeys : k[1] = prefix /\ cache[k].present}

\* invalidateCache that invalidates before it calls next()
AfterInvalidateCacheEager(m) == [m EXCEPT !.pc = "keys"]

\* the request when invalidateCache has run: res.json is replaced, next() is
\* called, nothing is invalidated; the handler awaits its write
AfterInvalidateCache(m) == [m EXCEPT !.pc = "db"]

\* a state-mutating request on room r1 (joinRoom behind invalidateCache):
\* invalidateCache replaces res.json and calls next(), the handler awaits its write
HttpMutate ==
  /\ mutReq.pc = "idle"
  /\ roomVersion < MaxVersion
  /\ mutReq' = AfterInvalidateCache(mutReq)
  /\ httpResp' = NoHttpResp
  /\ UNCHANGED <<roomVersion, apiCache, getReq, isConnected, cacheMissed>>
  /\ UNCHANGED notHttpVars

\* the handler resumes after its write and calls res.status(...).json(...); the
\* res.json of invalidateCache starts the invalidation of each pattern and sends
\* the response; invalidateRoomCache runs up to its await of redis.keys
HttpMutateReply(dbOk) ==
  /\ mutReq.pc = "db"
  /\ roomVersion' = IF dbOk THEN roomVersion + 1 ELSE roomVersion
  /\ httpResp' = [kind |-> "mutation", status |-> IF dbOk THEN 200 ELSE 500,
                  body |-> IF dbOk THEN RoomsBody(roomVersion + 1) ELSE ErrorBody,
                  fromCache |-> FALSE]
  /\ IF "invalidateRoomCache" \in {InvalidationOf(pt) : pt \in RoomPatterns}
     THEN IF isConnected
          THEN /\ mutReq' = [pc |-> "keys", listKeys |-> KeysMatching(apiCache, "room:list")]
               /\ UNCHANGED cacheMissed
          ELSE /\ mutReq' = IdleMutation
               /\ cacheMissed' = TRUE
     ELSE /\ mutReq' = IdleMutation
          /\ UNCHANGED cacheMissed
  /\ UNCHANGED <<apiCache, getReq, isConnected>>
  /\ UNCHANGED notHttpVars

\* invalidateRoomCache resumes after redis.keys: Promise.all of del(roomKey)
\* and del of every listed key, each sent when isConnected is still true
InvalidateKeysReply ==
  /\ mutReq.pc = "keys"
  /\ IF isConnected
     THEN /\ apiCache' = [k \in ApiKeys |->
                            IF k = <<"room:details", "r1">> \/ k \in mutReq.listKeys
                            THEN NoApiEntry ELSE apiCache[k]]
          /\ mutReq' = [pc |-> "dels", listKeys |-> {}]
          /\ UNCHANGED cacheMissed
     ELSE /\ mutReq' = IdleMutation
          /\ cacheMissed' = TRUE
          /\ UNCHANGED apiCache
  /\ httpResp' = NoHttpResp
  /\ UNCHANGED <<roomVersion, getReq, isConnected>>
  /\ UNCHANGED notHttpVars

\* invalidateRoomCache resumes after the DELs and returns
InvalidateDelsReply ==
  /\ mutReq.pc = "dels"
  /\ mutReq' = IdleMutation
  /\ httpResp' = NoHttpResp
  /\ UNCHANGED <<roomVersion, apiCache, getReq, isConnected, cacheMissed>>
  /\ UNCHANGED notHttpVars

NextHttpCache ==
  \/ RedisUp
  \/ RedisDown
  \/ \E path \in GetPaths, user \in HttpUsers : HttpGet(path, user)
  \/ HttpCacheGetReply
  \/ \E dbOk \in BOOLEAN : HttpHandlerReply(dbOk)
  \/ \E k \in HelperKeys : HelperSet(k)
  \/ \E k \in ApiKeys : CacheExpire(k)
  \/ HttpMutate
  \/ \E dbOk \in BOOLEAN : HttpMutateReply(dbOk)
  \/ InvalidateKeysReply
  \/ InvalidateDelsReply

SpecHttpCache == Init /\ [][NextHttpCache]_vars

\* the cache service from the start of the process. The redis client is created
\* with lazyConnect: it opens its connection at connect() or at the first
\* command it is given. Nothing calls connect() and every command is behind the
\* test of isConnected, so the client emits no "connect" or "ready" event.
NextCacheStart ==
  \/ \E op \in CacheOps, key \in OpKeys, value \in OpValues, ok \in BOOLEAN :
        CacheCall(op, key, value, ok)
  \/ \E path \in GetPaths, user \in HttpUsers : HttpGet(path, user)
  \/ \E dbOk \in BOOLEAN : HttpHandlerReply(dbOk)
  \/ \E k \in HelperKeys : HelperSet(k)
  \/ HttpMutate
  \/ \E dbOk \in BOOLEAN : HttpMutateReply(dbOk)

\* every request made is served
SpecCacheStart == Init /\ [][NextCacheStart]_vars /\ WF_vars(NextCacheStart)

\* C40 (the cache becomes usable): the cache service is eventually connected,
\* so that a set is carried out and a later get returns the value.
C40_CacheBecomesUsable == <>isConnected

\* C13 (cache transparency): every response to a GET that passed through
\* cacheMiddleware, also one served from the cache, has a status code and a
\* body that the handler produces for that request (for the rooms as they are
\* or as they were).
C13_CacheTransparency ==
  httpResp.kind = "get" =>
    \E ver \in 0..roomVersion, dbOk \in BOOLEAN :
      /\ httpResp.status = HandlerResponse(ver, dbOk).status
      /\ httpResp.body = HandlerResponse(ver, dbOk).body

\* C39 (no cached response across actors): a response that cacheMiddleware
\* sends from the cache was stored while serving a request of the same actor.
C39_NoCrossActorCache ==
  [][(getReq.pc = "cacheGet" /\ httpResp'.fromCache) =>
       /\ getReq.found.actor = getReq.user
       /\ httpResp'.body = getReq.found.body]_vars

\* C39 witness: a request of u1 is served from the cache while the entry of
\* the anonymous actor for the same endpoint holds another body
C39_Witness ==
  /\ httpResp.fromCache
  /\ apiCache[<<"room:public", "u1">>].present
  /\ apiCache[<<"room:public", "u1">>].actor = "u1"
  /\ httpResp.body = apiCache[<<"room:public", "u1">>].body
  /\ apiCache[<<"room:public", "anonymous">>].present
  /\ apiCache[<<"room:public", "anonymous">>].body # httpResp.body

\* the invalidation of the request in flight is under way
Invalidating(m) == m.pc \in {"keys", "dels"}

\* C32 (invalidation ordering): the invalidation of a state-mutating request
\* starts only in the step in which the handler, resumed from its write, sends
\* the response; while the handler awaits its write nothing is invalidated.
C32_InvalidateAfterWrite ==
  [][(~Invalidating(mutReq) /\ Invalidating(mutReq')) =>
       (mutReq.pc = "db" /\ httpResp'.kind = "mutation" /\ httpResp'.status # 0)]_vars

\* C32 witness: the write of the request is committed, the response is sent
\* and the invalidation has started
C32_Witness ==
  /\ mutReq.pc = "keys"
  /\ httpResp.kind = "mutation"
  /\ httpResp.status = 200
  /\ httpResp.body = RoomsBody(roomVersion)
  /\ roomVersion > 0

\* the keys that hold a view of room r1: its detail and every list
ViewKeys == ApiKeys

\* C14 (invalidation contract): once a state-mutating request on the room and
\* its invalidation have finished, with the cache connected throughout, no
\* cache entry written before the change is left.
C14_InvalidationContract ==
  (~cacheMissed /\ mutReq.pc = "idle") =>
    \A k \in ViewKeys : apiCache[k].present => apiCache[k].fill >= roomVersion

\* ------------------------------------------------------------------------
\* Database connection (src/config/database.ts)
\* ------------------------------------------------------------------------
\* the retry test with <= for <
ShouldRetryInclusive(attempts, max) == attempts <= max

\* if (connectionAttempts < this.maxRetries)
ShouldRetry(attempts, max) == attempts < max

\* the delay without the backoff factor
RetryDelayFlat(delay, attempts) == delay

\* this.retryDelay * Math.pow(2, connectionAttempts - 1)
RetryDelayOf(delay, attempts) == delay * 2^(attempts - 1)

\* connect() that leaves the attempt counter as it is
AttemptsAfterConnectKept(attempts) == attempts

\* connectionAttempts = 0 after mongoose.connect resolved
AttemptsAfterConnect(attempts) == 0

\* the catch of connect() that returns at the cap
AfterMaxRetriesReturns == "disconnected"

\* process.exit(1) at the cap
AfterMaxRetries == "exited"

\* new DatabaseConnection(uri, options) and connectDatabase(): connect() up to
\* its await of mongoose.connect
DbConnectStart(m, d) ==
  /\ dbPc = "idle"
  /\ maxRetries' = m
  /\ retryDelay' = d
  /\ connectionAttempts' = connectionAttempts + 1
  /\ attemptsMade' = attemptsMade + 1
  /\ dbPc' = "connecting"
  /\ UNCHANGED <<dbIsConnected, failedAttempts, failureRun, delays, exitCode>>
  /\ UNCHANGED notDbVars

\* mongoose.connect resolves
DbConnectResolves ==
  /\ dbPc = "connecting"
  /\ dbIsConnected' = TRUE
  /\ connectionAttempts' = AttemptsAfterConnect(connectionAttempts)
  /\ failureRun' = 0
  /\ dbPc' = "connected"
  /\ UNCHANGED <<maxRetries, retryDelay, attemptsMade, failedAttempts, delays, exitCode>>
  /\ UNCHANGED notDbVars

\* mongoose.connect rejects: the catch of connect() sets the retry timer
\* (retryConnection) or ends the process
DbConnectRejects ==
  /\ dbPc = "connecting"
  /\ failedAttempts' = failedAttempts + 1
  /\ failureRun' = failureRun + 1
  /\ IF ShouldRetry(connectionAttempts, maxRetries)
     THEN /\ delays' = Append(delays, RetryDelayOf(retryDelay, connectionAttempts))
          /\ dbPc' = "waiting"
          /\ UNCHANGED exitCode
     ELSE /\ dbPc' = AfterMaxRetries
          /\ exitCode' = 1
          /\ UNCHANGED delays
  /\ UNCHANGED <<connectionAttempts, dbIsConnected, maxRetries, retryDelay, attemptsMade>>
  /\ UNCHANGED notDbVars

\* the retry timer fires: connect() again, up to its await of mongoose.connect
DbRetryTimer ==
  /\ dbPc = "waiting"
  /\ connectionAttempts' = connectionAttempts + 1
  /\ attemptsMade' = attemptsMade + 1
  /\ dbPc' = "connecting"
  /\ UNCHANGED <<dbIsConnected, maxRetries, retryDelay, failedAttempts, failureRun, delays, exitCode>>
  /\ UNCHANGED notDbVars

\* connection.on("disconnected")
DbDisconnectedEvent ==
  /\ dbPc = "connected"
  /\ dbIsConnected
  /\ dbIsConnected' = FALSE
  /\ UNCHANGED <<dbPc, connectionAttempts, maxRetries, retryDelay, attemptsMade,
                 failedAttempts, failureRun, delays, exitCode>>
  /\ UNCHANGED notDbVars

\* connection.on("reconnected")
DbReconnectedEvent ==
  /\ dbPc = "connected"
  /\ ~dbIsConnected
  /\ dbIsConnected' = TRUE
  /\ UNCHANGED <<dbPc, connectionAttempts, maxRetries, retryDelay, attemptsMade,
                 failedAttempts, failureRun, delays, exitCode>>
  /\ UNCHANGED notDbVars

\* disconnectDatabase(): the retry timer is cleared, mongoose.disconnect()
DbDisconnect ==
  /\ dbPc \in {"waiting", "connected"}
  /\ dbPc' = "disconnected"
  /\ dbIsConnected' = FALSE
  /\ UNCHANGED <<connectionAttempts, maxRetries, retryDelay, attemptsMade,
                 failedAttempts, failureRun, delays, exitCode>>
  /\ UNCHANGED notDbVars

NextDb ==
  \/ \E m \in MaxRetriesChoices, d \in RetryDelayChoices : DbConnectStart(m, d)
  \/ DbConnectResolves
  \/ DbConnectRejects
  \/ DbRetryTimer
  \/ DbDisconnectedEvent
  \/ DbReconnectedEvent
  \/ DbDisconnect

SpecDb == Init /\ [][NextDb]_vars

\* connectDatabase() is called again after disconnectDatabase(): connect() up
\* to its await of mongoose.connect
DbConnectAgain ==
  /\ dbPc = "disconnected"
  /\ attemptsMade < MaxAttempts
  /\ connectionAttempts' = connectionAttempts + 1
  /\ attemptsMade' = attemptsMade + 1
  /\ dbPc' = "connecting"
  /\ UNCHANGED <<dbIsConnected, maxRetries, retryDelay, failedAttempts, failureRun, delays,
                 exitCode>>
  /\ UNCHANGED notDbVars

\* the connection with calls of connectDatabase() after disconnectDatabase()
NextDbAgain ==
  \/ \E m \in MaxRetriesChoices, d \in RetryDelayChoices : DbConnectStart(m, d)
  \/ DbConnectResolves
  \/ DbConnectRejects
  \/ DbRetryTimer
  \/ DbDisconnectedEvent
  \/ DbReconnectedEvent
  \/ DbDisconnect
  \/ DbConnectAgain

SpecDbAgain == Init /\ [][NextDbAgain]_vars

\* the connect sequence of connectDatabase() with the events of the connection,
\* nobody calling disconnectDatabase()
NextDbConnect ==
  \/ \E m \in MaxRetriesChoices, d \in RetryDelayChoices : DbConnectStart(m, d)
  \/ DbConnectResolves
  \/ DbConnectRejects
  \/ DbRetryTimer
  \/ DbDisconnectedEvent
  \/ DbReconnectedEvent

\* every call of mongoose.connect settles and every timer set fires
SpecDbFair ==
  /\ Init
  /\ [][NextDbConnect]_vars
  /\ WF_vars(DbConnectResolves \/ DbConnectRejects)
  /\ WF_vars(DbRetryTimer)

\* C15 (store retry): when the third call of mongoose.connect resolves after
\* two rejected ones, three calls were made, the delay before the second retry
\* is larger than the delay before the first, and isConnected is true.
C15_StoreRetry ==
  [][(dbPc = "connecting" /\ dbPc' = "connected" /\ failedAttempts = 2) =>
        /\ attemptsMade' = 3
        /\ Len(delays') = 2
        /\ delays'[1] < delays'[2]
        /\ dbIsConnected'
        /\ exitCode' = -1
    ]_vars

\* two attempts failed and the third connected, with the default settings
C15_Witness ==
  /\ dbPc = "connected"
  /\ failedAttempts = 2
  /\ attemptsMade = 3
  /\ maxRetries = DefaultMaxRetries
  /\ delays = <<DefaultRetryDelay, 2 * DefaultRetryDelay>>
  /\ dbIsConnected

\* C16 (retry cap is fatal): mongoose.connect is never called more often than
\* maxRetries, and when the call that reaches maxRetries is rejected the
\* process exits with code 1 and no retry timer is set.
C16_RetryCapFatal ==
  [][/\ attemptsMade' <= maxRetries'
     /\ (dbPc = "connecting" /\ attemptsMade = maxRetries /\ failedAttempts' = failedAttempts + 1) =>
           /\ dbPc' = "exited"
           /\ exitCode' = 1
           /\ delays' = delays
    ]_vars

\* the third of three attempts failed and the process has exited
C16_Witness ==
  /\ dbPc = "exited"
  /\ exitCode = 1
  /\ maxRetries = DefaultMaxRetries
  /\ attemptsMade = DefaultMaxRetries
  /\ failedAttempts = DefaultMaxRetries

\* C33 (exponential backoff): the delay of the timer set after a rejected
\* connect is retryDelay * 2^(k-1), k being the number of rejected connects
\* since the last resolved one, and a resolved connect sets connectionAttempts
\* to 0.
C33_ExponentialBackoff ==
  [][/\ (dbPc = "connecting" /\ dbPc' = "waiting") =>
          /\ Len(delays') = Len(delays) + 1
          /\ delays'[Len(delays')] = retryDelay * 2^(failureRun' - 1)
     /\ (dbPc = "connecting" /\ dbPc' = "connected") => connectionAttempts' = 0
    ]_vars

\* C33 witness: with the defaults a first connect was rejected (1000 ms), the
\* second resolved, and after disconnectDatabase() and connectDatabase() two
\* connects were rejected: 1000 ms again, then 2000 ms
C33_Witness ==
  /\ dbPc = "waiting"
  /\ maxRetries = DefaultMaxRetries
  /\ attemptsMade = 4
  /\ failureRun = 2
  /\ delays = <<DefaultRetryDelay, DefaultRetryDelay, 2 * DefaultRetryDelay>>

\* the 'disconnected' event arrives in this step, the connection being up
ConnectionLost == dbPc = "connected" /\ dbIsConnected /\ ~dbIsConnected'

\* C34 (reconnect after a disconnect): when the connection is lost while
\* connected, the handler of the event enters connect() again or sets the
\* retry timer.
C34_ReconnectAfterDisconnect ==
  [][ConnectionLost => dbPc' \in {"connecting", "waiting"}]_vars

\* C35 (the connect sequence terminates): once connectDatabase() is called, the
\* connection is eventually connected or the process has exited.
C35_ConnectTerminates == (dbPc = "connecting") ~> (dbPc \in {"connected", "exited"})

\* C35 witness: the sequence ended at the cap after maxRetries rejected connects
C35_Witness ==
  /\ dbPc = "exited"
  /\ maxRetries = 4
  /\ failureRun = 4
  /\ Len(delays) = 3

\* ------------------------------------------------------------------------
\* Request-volume limiters
\* ------------------------------------------------------------------------
\* the window of a limiter in ticks of its clock
WindowTicks(name, tickMs) == LimiterConfig[name].windowMs \div tickMs

\* the store counts a request at time t: a new window opens with the first
\* request at or after resetTime
LimiterHit(st, t, window) ==
  IF st.resetTime = NoTime \/ t >= st.resetTime
  THEN [hits |-> 1, resetTime |-> t + window]
  ELSE [st EXCEPT !.hits = st.hits + 1]

\* totalHits > max: the request is answered 429
OverLimit(st, name) == st.hits > LimiterConfig[name].max

\* skipSuccessfulRequests: the store takes back one hit when a response
\* finishes with a status below 400
LimiterDecrement(st, name, status) ==
  IF LimiterConfig[name].skipSuccessfulRequests /\ status < 400 /\ st.hits > 0
  THEN [st EXCEPT !.hits = st.hits - 1]
  ELSE st

\* time passes at the room-creation limiter
RoomTick ==
  /\ roomClock < MaxRoomTime
  /\ roomClock' = roomClock + 1
  /\ roomLog' = [prev |-> roomLog.cur, cur |-> 0]
  /\ roomBurst' = NoBurst
  /\ UNCHANGED roomLimit
  /\ UNCHANGED <<authLimiterVars, notLimiterVars>>

\* a room-creation request of the client reaches roomCreationLimiter
RoomCreationRequest ==
  /\ roomBurst.sent < MaxBurst
  /\ LET st == LimiterHit(roomLimit, roomClock, WindowTicks("roomCreation", RoomTickMs))
         limited == OverLimit(st, "roomCreation") IN
     /\ roomLimit' = st
     /\ roomLog' = [roomLog EXCEPT !.cur = IF limited THEN @ ELSE @ + 1]
     /\ roomBurst' = [sent |-> roomBurst.sent + 1,
                      limited |-> roomBurst.limited + (IF limited THEN 1 ELSE 0)]
  /\ UNCHANGED roomClock
  /\ UNCHANGED <<authLimiterVars, notLimiterVars>>

NextRoomLimiter ==
  \/ RoomTick
  \/ RoomCreationRequest

SpecRoomLimiter == Init /\ [][NextRoomLimiter]_vars

\* C17 (request-volume caps): the room-creation limiter admits at most its cap
\* of requests of a client in any window of its length (two ticks of the
\* clock), and of 12 requests sent together at least one is answered 429.
C17_LimiterCaps ==
  /\ roomLog.prev + roomLog.cur <= LimiterConfig["roomCreation"].max
  /\ roomBurst.sent >= 12 => roomBurst.limited >= 1

\* time passes at the authentication limiter
AuthTick ==
  /\ authClock < MaxAuthTime
  /\ authClock' = authClock + 1
  /\ authBurst' = NoAuthBurst
  /\ UNCHANGED <<authLimit, authInFlight>>
  /\ UNCHANGED <<roomLimiterVars, notLimiterVars>>

\* a request of the client to /register or /login reaches authLimiter: over
\* the limit it is answered 429, else it goes on to its handler
AuthRequest(kind) ==
  /\ authBurst.kind \in {"none", kind}
  /\ authBurst.sent < MaxBurst
  /\ LET st == LimiterHit(authLimit, authClock, WindowTicks("auth", AuthTickMs))
         limited == OverLimit(st, "auth") IN
     /\ authLimit' = st
     /\ authInFlight' = [authInFlight EXCEPT ![kind] = IF limited THEN @ ELSE @ + 1]
     /\ authBurst' = [kind |-> kind, sent |-> authBurst.sent + 1,
                      limited |-> authBurst.limited + (IF limited THEN 1 ELSE 0)]
  /\ UNCHANGED authClock
  /\ UNCHANGED <<roomLimiterVars, notLimiterVars>>

\* the response of an admitted request finishes with its handler's status
AuthResponseFinish(kind) ==
  /\ authInFlight[kind] > 0
  /\ authInFlight' = [authInFlight EXCEPT ![kind] = @ - 1]
  /\ authLimit' = LimiterDecrement(authLimit, "auth", HandlerStatus[kind])
  /\ UNCHANGED <<authClock, authBurst>>
  /\ UNCHANGED <<roomLimiterVars, notLimiterVars>>

NextAuthLimiter ==
  \/ AuthTick
  \/ \E kind \in AuthKinds : AuthRequest(kind)
  \/ \E kind \in AuthKinds : AuthResponseFinish(kind)

SpecAuthLimiter == Init /\ [][NextAuthLimiter]_vars

\* C18 (wrong-credential logins are limited): of 6 login requests with wrong
\* credentials that one client sends together, at least one is answered 429.
C18_FailedLoginBurstLimited ==
  (authBurst.kind = "login_bad" /\ authBurst.sent >= 6) => authBurst.limited >= 1

\* C19 (registrations are limited): of 6 registration requests for distinct
\* valid users that one client sends together, at least one is answered 429.
C19_RegistrationBurstLimited ==
  (authBurst.kind = "register" /\ authBurst.sent >= 6) => authBurst.limited >= 1

\* ------------------------------------------------------------------------
\* Room membership over HTTP: createRoom and joinRoom
\* ------------------------------------------------------------------------
\* how often v is in the array
CountIn(arr, v) == Cardinality({i \in 1..Len(arr) : arr[i] = v})

\* room.participants.some((participantId) => participantId.toString() === user._id.toString())
IsParticipant(room, user) == \E i \in 1..Len(room.participants) : room.participants[i] = user

\* room.maxParticipants && room.participants.length >= room.maxParticipants
AtCapacity(room) ==
  room.maxParticipants # 0 /\ Len(room.participants) >= room.maxParticipants

\* the private-room test of joinRoom
NotInvited(room, user) ==
  /\ room.roomType = "private"
  /\ user \notin room.invitedUsers
  /\ room.creator # user

\* the response joinRoom sends before it changes anything, status 0 if none
JoinRejection(room, user) ==
  IF ~room.exists THEN [status |-> 404, message |-> "Room not found"]
  ELSE IF NotInvited(room, user)
    THEN [status |-> 403, message |-> "Not invited to this private room"]
  ELSE IF AtCapacity(room)
    THEN [status |-> 400, message |-> "Room is at maximum capacity"]
  ELSE IF IsParticipant(room, user)
    THEN [status |-> 400, message |-> "Already joined this room"]
  ELSE [status |-> 0, message |-> ""]

\* Room.findByIdAndUpdate(roomId, {$push: {participants}, $pull: {invitedUsers}})
PushParticipant(room, user) ==
  [room EXCEPT !.participants = Append(@, user), !.invitedUsers = @ \ {user}]

JoinResponse(j, status, message) ==
  [status |-> status, message |-> message, user |-> joinReq[j].user,
   wasParticipant |-> CountIn(joinStart[j], joinReq[j].user) > 0,
   before |-> joinStart[j], after |-> roomDoc'.participants]

\* createRoom: the creator is the first participant
CreateRoom(roomType, max) ==
  /\ ~roomDoc.exists
  /\ roomDoc' = [exists |-> TRUE, roomType |-> roomType, creator |-> RoomCreator,
                 maxParticipants |-> max, participants |-> <<RoomCreator>>,
                 invitedUsers |-> {}]
  /\ joinedRooms' = [joinedRooms EXCEPT ![RoomCreator] = @ + 1]
  /\ joinResp' = NoJoinResp
  /\ UNCHANGED <<joinReq, joinStart>>
  /\ UNCHANGED notRoomJoinVars

\* createTestRoom of the test helpers: a room without participants
CreateTestRoom(roomType) ==
  /\ ~roomDoc.exists
  /\ roomDoc' = [exists |-> TRUE, roomType |-> roomType, creator |-> RoomCreator,
                 maxParticipants |-> 100, participants |-> <<>>, invitedUsers |-> {}]
  /\ joinResp' = NoJoinResp
  /\ UNCHANGED <<joinedRooms, joinReq, joinStart>>
  /\ UNCHANGED notRoomJoinVars

\* POST /api/rooms/:roomId/join arrives: joinRoom up to await Room.findById
JoinRoomStart(j, user) ==
  /\ joinReq[j].pc = "idle"
  /\ Len(roomDoc.participants) < MaxParticipants
  /\ joinReq' = [joinReq EXCEPT ![j] = [pc |-> "find", user |-> user, room |-> NoRoom]]
  /\ joinStart' = [joinStart EXCEPT ![j] = roomDoc.participants]
  /\ joinResp' = NoJoinResp
  /\ UNCHANGED <<roomDoc, joinedRooms>>
  /\ UNCHANGED notRoomJoinVars

\* Room.findById answers: the checks of joinRoom, then the update is sent
JoinFindReply(j, dbOk) ==
  /\ joinReq[j].pc = "find"
  /\ UNCHANGED <<roomDoc, joinedRooms, joinStart>>
  /\ LET rejection == JoinRejection(roomDoc, joinReq[j].user) IN
     IF ~dbOk
     THEN /\ joinResp' = JoinResponse(j, 500, "Failed to join room")
          /\ joinReq' = [joinReq EXCEPT ![j] = IdleJoin]
     ELSE IF rejection.status # 0
     THEN /\ joinResp' = JoinResponse(j, rejection.status, rejection.message)
          /\ joinReq' = [joinReq EXCEPT ![j] = IdleJoin]
     ELSE /\ joinResp' = NoJoinResp
          /\ joinReq' = [joinReq EXCEPT ![j] = [@ EXCEPT !.pc = "push", !.room = roomDoc]]
  /\ UNCHANGED notRoomJoinVars

\* the database applies Room.findByIdAndUpdate and answers: the update of the
\* User document is sent
JoinPushReply(j, dbOk) ==
  /\ joinReq[j].pc = "push"
  /\ UNCHANGED <<joinedRooms, joinStart>>
  /\ IF dbOk
     THEN /\ roomDoc' = PushParticipant(roomDoc, joinReq[j].user)
          /\ joinReq' = [joinReq EXCEPT ![j].pc = "user"]
          /\ joinResp' = NoJoinResp
     ELSE /\ roomDoc' = roomDoc
          /\ joinReq' = [joinReq EXCEPT ![j] = IdleJoin]
          /\ joinResp' = JoinResponse(j, 500, "Failed to join room")
  /\ UNCHANGED notRoomJoinVars

\* the database applies User.findByIdAndUpdate and answers: joinRoom responds
JoinUserReply(j, dbOk) ==
  /\ joinReq[j].pc = "user"
  /\ UNCHANGED <<roomDoc, joinStart>>
  /\ joinReq' = [joinReq EXCEPT ![j] = IdleJoin]
  /\ IF dbOk
     THEN /\ joinedRooms' = [joinedRooms EXCEPT ![joinReq[j].user] = @ + 1]
          /\ joinResp' = JoinResponse(j, 200, "Successfully joined room")
     ELSE /\ joinedRooms' = joinedRooms
          /\ joinResp' = JoinResponse(j, 500, "Failed to join room")
  /\ UNCHANGED notRoomJoinVars

NextRoomJoin ==
  \/ \E roomType \in RoomTypes, max \in MaxParticipantsChoices : CreateRoom(roomType, max)
  \/ \E roomType \in RoomTypes : CreateTestRoom(roomType)
  \/ \E j \in JoinReqs, user \in RoomUsers : JoinRoomStart(j, user)
  \/ \E j \in JoinReqs, dbOk \in BOOLEAN : JoinFindReply(j, dbOk)
  \/ \E j \in JoinReqs, dbOk \in BOOLEAN : JoinPushReply(j, dbOk)
  \/ \E j \in JoinReqs, dbOk \in BOOLEAN : JoinUserReply(j, dbOk)

SpecRoomJoin == Init /\ [][NextRoomJoin]_vars

\* C21 (no double join): a join request of a user who is a participant when
\* the request arrives is answered 400, and after any sequence of join
\* requests, concurrent ones included, a user is at most once in participants.
C21_NoDoubleJoin ==
  /\ (joinResp.status # 0 /\ joinResp.wasParticipant) => joinResp.status \in {400, 500}
  /\ \A u \in RoomUsers : CountIn(roomDoc.participants, u) <= 1

\* C22 (creator cannot join): a join request of the room's creator is answered
\* 400 with a message that names the creator, and participants stay as they
\* were.
C22_CreatorCannotJoin ==
  (joinResp.user = RoomCreator /\ joinResp.status \notin {0, 404, 500}) =>
    /\ joinResp.status = 400
    /\ joinResp.message = "Room creator cannot join their own room"
    /\ joinResp.after = joinResp.before

\* ------------------------------------------------------------------------
\* Chat messages over HTTP: inviteUsers and createMessage
\* ------------------------------------------------------------------------
\* what createMessage leaves alone, besides the Room document and the emits
notMessageVars == <<lockoutVars, sock, rooms, hd, partCache, onlineCache, isConnected,
                    cacheMissed, received, cacheOpVars, httpVars, dbVars, roomLimiterVars,
                    authLimiterVars, joinedRooms, joinReq, joinStart, joinResp>>

\* inviteUsers: only the creator invites; $addToSet on invitedUsers
InviteUsers(user, invited) ==
  /\ roomDoc.exists
  /\ roomDoc' = IF roomDoc.creator = user
                THEN [roomDoc EXCEPT !.invitedUsers = @ \cup {invited}]
                ELSE roomDoc
  /\ joinResp' = NoJoinResp
  /\ UNCHANGED <<joinedRooms, joinReq, joinStart>>
  /\ UNCHANGED notRoomJoinVars

\* the response createMessage sends after Room.findById, status 0 if none
MessageRejection(room, status, user) ==
  IF ~room.exists THEN [status |-> 404, message |-> "Room not found"]
  ELSE IF status # "live"
    THEN [status |-> 400, message |-> "Cannot send messages to a room that is not live"]
  ELSE IF ~IsParticipant(room, user) /\ room.creator # user /\ user \notin room.invitedUsers
    THEN [status |-> 403, message |-> "You must join the room to send messages"]
  ELSE [status |-> 0, message |-> ""]

\* createMessage joins the sender first: not a participant, not the creator, invited
AutoJoins(room, user) ==
  ~IsParticipant(room, user) /\ room.creator # user /\ user \in room.invitedUsers

MessageFailed == [status |-> 500, message |-> "Failed to create message"]

\* io.to(roomId).emit("receive_message", ...) of createMessage
MessageBroadcast(rm, roomId) == {Emit("receive_message", roomId, "http", IoTo(rm, roomId), FALSE)}

\* POST /api/rooms/:roomId/messages arrives: createMessage up to await Room.findById
CreateMessageStart(user, content) ==
  /\ msgReq.pc = "idle"
  /\ Len(roomDoc.participants) < MaxParticipants
  /\ msgReq' = [pc |-> "find", user |-> user, content |-> content]
  /\ msgResp' = NoMsgResp
  /\ emitted' = {}
  /\ UNCHANGED <<roomDoc, msgStore, lastBroadcast>>
  /\ UNCHANGED notMessageVars

\* Room.findById answers, the document having the given status: the checks of
\* createMessage, then the auto-join update or the save is sent
CreateMessageFindReply(dbOk, status) ==
  /\ msgReq.pc = "find"
  /\ LET rejection == MessageRejection(roomDoc, status, msgReq.user) IN
     IF ~dbOk
     THEN /\ msgResp' = MessageFailed
          /\ msgReq' = IdleMsg
     ELSE IF rejection.status # 0
     THEN /\ msgResp' = rejection
          /\ msgReq' = IdleMsg
     ELSE /\ msgResp' = NoMsgResp
          /\ msgReq' = [msgReq EXCEPT !.pc = IF AutoJoins(roomDoc, msgReq.user)
                                             THEN "autojoin" ELSE "save"]
  /\ emitted' = {}
  /\ UNCHANGED <<roomDoc, msgStore, lastBroadcast>>
  /\ UNCHANGED notMessageVars

\* the database applies the auto-join update and answers: message.save() is sent
CreateMessageAutoJoinReply(dbOk) ==
  /\ msgReq.pc = "autojoin"
  /\ IF dbOk
     THEN /\ roomDoc' = PushParticipant(roomDoc, msgReq.user)
          /\ msgReq' = [msgReq EXCEPT !.pc = "save"]
          /\ msgResp' = NoMsgResp
     ELSE /\ roomDoc' = roomDoc
          /\ msgReq' = IdleMsg
          /\ msgResp' = MessageFailed
  /\ emitted' = {}
  /\ UNCHANGED <<msgStore, lastBroadcast>>
  /\ UNCHANGED notMessageVars

\* message.save() answers: Message.findById(...).populate is sent
CreateMessageSaveReply(dbOk) ==
  /\ msgReq.pc = "save"
  /\ IF dbOk
     THEN /\ msgStore' = msgStore \cup {msgReq.content}
          /\ msgReq' = [msgReq EXCEPT !.pc = "populate"]
          /\ msgResp' = NoMsgResp
     ELSE /\ msgStore' = msgStore
          /\ msgReq' = IdleMsg
          /\ msgResp' = MessageFailed
  /\ emitted' = {}
  /\ UNCHANGED <<roomDoc, lastBroadcast>>
  /\ UNCHANGED notMessageVars

\* the populated message arrives: the broadcast to the room, then 201
CreateMessagePopulateReply(dbOk) ==
  /\ msgReq.pc = "populate"
  /\ msgReq' = IdleMsg
  /\ IF dbOk
     THEN /\ emitted' = MessageBroadcast(rooms, "r1")
          /\ lastBroadcast' = msgReq.content
          /\ msgResp' = [status |-> 201, message |-> msgReq.content]
     ELSE /\ emitted' = {}
          /\ lastBroadcast' = lastBroadcast
          /\ msgResp' = MessageFailed
  /\ UNCHANGED <<roomDoc, msgStore>>
  /\ UNCHANGED notMessageVars

\* the chat of one room: sessions that connect and join it, messages over HTTP
\* and over the socket
NextMessages ==
  \/ \E roomType \in RoomTypes : CreateRoom(roomType, 0)
  \/ \E s \in Sockets : Connect(s, IF s = "s1" THEN "tok_u1" ELSE "tok_u2")
  \/ \E s \in Sockets : AuthFindById(s, TRUE)
  \/ \E s \in Sockets : JoinRoom(s, "r1")
  \/ \E s \in Sockets, content \in Contents : SendMessageContent(s, "r1", content)
  \/ \E user \in RoomUsers : InviteUsers(RoomCreator, user)
  \/ \E user \in RoomUsers, content \in Contents : CreateMessageStart(user, content)
  \/ \E dbOk \in BOOLEAN, status \in RoomStatuses : CreateMessageFindReply(dbOk, status)
  \/ \E dbOk \in BOOLEAN : CreateMessageAutoJoinReply(dbOk)
  \/ \E dbOk \in BOOLEAN : CreateMessageSaveReply(dbOk)
  \/ \E dbOk \in BOOLEAN : CreateMessagePopulateReply(dbOk)

SpecMessages == Init /\ [][NextMessages]_vars

\* maxParticipants of the rooms whose capacity is looked at
CapacityChoices == {1, 2}

\* the members of one room: joinRoom requests and the auto-join of createMessage
NextCapacity ==
  \/ \E roomType \in RoomTypes, max \in CapacityChoices : CreateRoom(roomType, max)
  \/ \E user \in RoomUsers : InviteUsers(RoomCreator, user)
  \/ \E j \in JoinReqs, user \in RoomUsers : JoinRoomStart(j, user)
  \/ \E j \in JoinReqs, dbOk \in BOOLEAN : JoinFindReply(j, dbOk)
  \/ \E j \in JoinReqs, dbOk \in BOOLEAN : JoinPushReply(j, dbOk)
  \/ \E j \in JoinReqs, dbOk \in BOOLEAN : JoinUserReply(j, dbOk)
  \/ \E user \in RoomUsers : CreateMessageStart(user, "m1")
  \/ \E dbOk \in BOOLEAN, status \in RoomStatuses : CreateMessageFindReply(dbOk, status)
  \/ \E dbOk \in BOOLEAN : CreateMessageAutoJoinReply(dbOk)
  \/ \E dbOk \in BOOLEAN : CreateMessageSaveReply(dbOk)
  \/ \E dbOk \in BOOLEAN : CreateMessagePopulateReply(dbOk)

SpecCapacity == Init /\ [][NextCapacity]_vars

\* the room has a capacity and holds more participants than that
OverCapacity(room) ==
  room.maxParticipants # 0 /\ Len(room.participants) > room.maxParticipants

\* join request j gets the answer of Room.findById, the room being full
FindsRoomFull(j) ==
  /\ joinReq[j].pc = "find"
  /\ joinReq'[j].pc # "find"
  /\ roomDoc.exists
  /\ ~NotInvited(roomDoc, joinReq[j].user)
  /\ AtCapacity(roomDoc)
  /\ joinResp'.status # 500

\* C36 (room capacity): a room with maxParticipants never holds more
\* participants than that, whatever joinRoom requests and createMessage
\* auto-joins are made, and a join request that finds the room full is answered
\* 400 "Room is at maximum capacity" and changes nothing.
C36_CapacityNeverExceeded ==
  /\ [](~OverCapacity(roomDoc))
  /\ [][\A j \in JoinReqs : FindsRoomFull(j) =>
           /\ joinResp'.status = 400
           /\ joinResp'.message = "Room is at maximum capacity"
           /\ roomDoc' = roomDoc]_vars

\* createMessage answers in this step
MessageAnswered == msgReq.pc # "idle" /\ msgReq'.pc = "idle"

\* the receive_message events of the last step that reach a socket
DeliveredMessages == {e \in emitted : e.event = "receive_message" /\ e.to # {}}

\* C31 (durable broadcast): every receive_message delivered to a socket in the
\* room carries a message that is in the Message collection, and the step in
\* which createMessage answers 500 emits nothing.
C31_BroadcastIsRecorded ==
  /\ [](DeliveredMessages # {} => lastBroadcast \in msgStore)
  /\ [][(MessageAnswered /\ msgResp'.status = 500) => emitted' = {}]_vars

\* ------------------------------------------------------------------------
\* Realtime: properties
\* ------------------------------------------------------------------------
\* the live sessions of user u that are in room R
SessionsIn(u, R) == {s \in Sockets : sock[s].state = "open" /\ sock[s].user = u /\ R \in rooms[s]}

\* no cache call was skipped so far and none is in flight
HealthyCache == isConnected /\ ~cacheMissed /\ \A s \in Sockets : hd[s].pc = "idle"

\* C5 (membership invariant): with a healthy cache and no join_room or
\* leave_room handler in flight, a user is listed in the cached participants
\* of a room if and only if one of the user's live sockets is in the room.
C5_MembershipInvariant ==
  HealthyCache =>
    \A R \in RoomIds, u \in Users :
      u \in ListedUsers(partCache[R].list) <=> SessionsIn(u, R) # {}

\* C6 (cleanup completeness): the step in which a socket that is in room R
\* disconnects emits user_left_room for R to the sockets left in R, and takes
\* the user out of R's cached participants unless another live socket of the
\* user is still in R.
C6_CleanupCompleteness ==
  [][\A s \in Sockets, R \in RoomIds :
        (sock[s].state = "open" /\ sock'[s].state = "closed" /\ R \in rooms[s]) =>
          /\ \E e \in emitted' : /\ e.event = "user_left_room"
                                 /\ e.room = R
                                 /\ e.from = s
                                 /\ e.to = IoTo(rooms', R)
          /\ (isConnected /\ \A t \in Sockets \ {s} : R \notin rooms[t]) =>
                sock[s].user \notin ListedUsers(partCache'[R].list)
    ]_vars

\* C7 (join idempotence): a join_room of a socket that is already in the room
\* delivers user_joined_room to no other socket, the first join_room having
\* delivered the one notification.
C7_JoinIdempotence ==
  \A e \in emitted : (e.event = "user_joined_room" /\ e.again) => e.to = {}

\* C8 (fanout exclusion): user_joined_room and user_left_room are delivered to
\* every socket in the room except the one that caused them; receive_message
\* sent by a socket in the room is delivered to every socket in the room, the
\* sender included.
C8_FanoutExclusion ==
  \A e \in emitted :
    /\ e.event \in {"user_joined_room", "user_left_room"} =>
          /\ e.from \notin e.to
          /\ e.to = IoTo(rooms, e.room) \ {e.from}
    /\ (e.event = "receive_message" /\ e.from \in IoTo(rooms, e.room)) =>
          /\ e.from \in e.to
          /\ e.to = IoTo(rooms, e.room)

\* a socket that is in the room joins it again while the other socket is in
\* the room: the notification goes to the other socket only
C8_Witness ==
  \E e \in emitted :
    /\ e.event = "user_joined_room"
    /\ e.from \in IoTo(rooms, e.room)
    /\ e.to = Sockets \ {e.from}

\* the handshake of socket s cannot pass the middleware
BadCredential(s) ==
  \/ sock[s].token = "none"
  \/ JwtVerify(sock[s].token) = "invalid"
  \/ FindById(JwtVerify(sock[s].token)) = "none"

\* C9 (authentication fails fast): a handshake without token, with a token
\* that does not verify or with the token of a deleted user never gets past
\* the middleware; a rejected socket carries an error, is in no room, has no
\* online-user entry and no handler, and stays rejected.
C9_AuthFailsFast ==
  [][\A s \in Sockets :
        /\ (sock'[s].state # "new" /\ BadCredential(s)')
              => sock'[s].state \in {"findById", "rejected"}
        /\ sock'[s].state = "rejected" =>
              /\ sock'[s].error # "none"
              /\ rooms'[s] = {}
              /\ hd'[s] = IdleHandler
              /\ \A u \in Users : onlineCache'[u].socketId # s
        /\ sock[s].state = "rejected" =>
              /\ sock'[s] = sock[s]
              /\ \A e \in emitted' : e.from # s
    ]_vars

\* the token of a deleted user was rejected after the lookup, while the other
\* socket is open
C9_Witness ==
  \E s \in Sockets, t \in Sockets :
    /\ sock[s].state = "rejected"
    /\ sock[s].token = "tok_gone"
    /\ sock[s].error = "User not found"
    /\ sock[t].state = "open"

\* C10 (senders are members): receive_message and receive_reaction reach the
\* sockets of a room only when the sending socket is in that room.
C10_SenderIsMember ==
  \A e \in emitted :
    (e.event \in {"receive_message", "receive_reaction"} /\ e.to # {}) =>
      e.from \in IoTo(rooms, e.room)

\* C25 (membership mutations are serialized): once the join_room handlers of
\* the sockets have completed over a healthy cache, the user of every socket
\* that is in a room is in the room's cached participants; no interleaving of
\* the handlers loses an update.
C25_NoLostUpdate ==
  HealthyCache =>
    \A R \in RoomIds, s \in Sockets :
      (sock[s].state = "open" /\ R \in rooms[s]) =>
        sock[s].user \in ListedUsers(partCache[R].list)

\* the sockets whose suspended handler for the room of s's handler got its
\* event before s did
ReceivedBefore(s) ==
  {received[i] : i \in {j \in 1..Len(received) :
      /\ \E k \in (j + 1)..Len(received) : received[k] = s
      /\ hd[received[j]].room = hd[s].room}}

\* the handler of socket s completes in this step
HandlerCompletes(s) == hd[s].pc # "idle" /\ hd'[s].pc = "idle"

\* C26, first part: the handlers of one room emit their notifications in the
\* order in which their events were received.
C26_NotificationsInOrder ==
  \A s \in Sockets : HandlerCompletes(s) => ReceivedBefore(s) = {}

\* C26, second part: when the leave_room handler of a socket completes over a
\* healthy cache and no other socket of the user is in the room, the user is
\* not in the room's cached participants.
C26_LeaveAfterJoinRemoves ==
  \A s \in Sockets :
    (HandlerCompletes(s) /\ hd[s].kind = "leave" /\ HealthyCache'
       /\ SessionsIn(sock[s].user, hd[s].room)' = {})
      => sock[s].user \notin ListedUsers(partCache'[hd[s].room].list)

\* C26 (per-room ordering): user_joined_room / user_left_room are emitted in
\* the order in which the join_room / leave_room events of the room were
\* received, whatever time the cache calls take, and a join_room followed by a
\* leave_room of one session leaves its user out of the participants.
C26_PerRoomOrdering ==
  [][C26_NotificationsInOrder /\ C26_LeaveAfterJoinRemoves]_vars

\* the sockets of user u that have passed authentication and are not closed
LiveSessions(u) == {t \in Sockets : sock[t].state \in {"setOnline", "open"} /\ sock[t].user = u}

\* sessions of two users, one socket each, that send events with the id of a
\* user as roomId; the cache is not connected
NextPrivate ==
  \/ \E s \in Sockets : Connect(s, IF s = "s1" THEN "tok_u1" ELSE "tok_u2")
  \/ \E s \in Sockets : AuthFindById(s, TRUE)
  \/ \E s \in Sockets, room \in Users : JoinRoom(s, room)
  \/ \E s \in Sockets, room \in Users : LeaveRoom(s, room)
  \/ \E s \in Sockets, roomId \in Users : SendMessage(s, roomId)
  \/ \E s \in Sockets, roomId \in Users : SendReaction(s, roomId)
  \/ \E s \in Sockets : Disconnect(s)

SpecPrivate == Init /\ [][NextPrivate]_vars

\* the events of the last step emitted to the private address of user u
AddressedTo(u) == {e \in emitted : e.room = u}

\* C38 (private address): only sockets authenticated as U are in the socket
\* room named by U's id and receive the events emitted to it, and no
\* send_message of a socket of another user is delivered on it.
C38_PrivateAddress ==
  \A u \in Users :
    /\ \A s \in Sockets : u \in rooms[s] => sock[s].user = u
    /\ \A e \in AddressedTo(u) :
         /\ \A t \in e.to : sock[t].user = u
         /\ (e.event = "receive_message" /\ e.to # {}) => sock[e.from].user = u

\* C37 (online-user entry): while no cache call was skipped, the entry
\* online:users:<U> is present exactly when user U has a live authenticated
\* socket; the disconnect of one of two sockets of U leaves it in place.
C37_OnlineWhileConnected ==
  (isConnected /\ ~cacheMissed) =>
    \A u \in Users : onlineCache[u].present <=> LiveSessions(u) # {}

\* C27 (disconnect against an in-flight join): when the join_room handler of a
\* socket that has disconnected meanwhile completes over a healthy cache, the
\* socket's user is not in the room's cached participants unless a live socket
\* of the user is in the room, and a user without live sockets has no
\* online-user entry.
C27_DisconnectDuringJoin ==
  [][\A s \in Sockets :
       (sock[s].state = "closed" /\ HandlerCompletes(s) /\ hd[s].kind = "join" /\ HealthyCache')
         => /\ SessionsIn(sock[s].user, hd[s].room)' = {}
                 => sock[s].user \notin ListedUsers(partCache'[hd[s].room].list)
            /\ LiveSessions(sock[s].user)' = {} => ~onlineCache'[sock[s].user].present
    ]_vars

\* C28 (leave_room of a non-member is a no-op): a leave_room event of a socket
\* that is not in the room delivers user_left_room to no socket and leaves the
\* room's cached participants as they are.
C28_LeaveNonMemberNoOp ==
  [][\A s \in Sockets, R \in RoomIds :
       (LeaveRoom(s, R) /\ R \notin rooms[s]) =>
         /\ \A e \in emitted' : (e.event = "user_left_room" /\ e.from = s) => e.to = {}
         /\ ListedUsers(partCache'[R].list) = ListedUsers(partCache[R].list)
    ]_vars

\* socket s sends an event whose payload has no roomId in this step
MalformedEvent(s) ==
  \/ JoinRoom(s, "none")
  \/ LeaveRoom(s, "none")
  \/ SendMessage(s, "none")
  \/ SendReaction(s, "none")

\* C29 (malformed events change nothing): a join_room, leave_room,
\* send_message or send_reaction event without a roomId is answered with a
\* rejection to its sender; it changes no socket room membership, starts no
\* cache call, writes no cache entry and reaches no other socket.
C29_MalformedEventRejected ==
  [][\A s \in Sockets :
       MalformedEvent(s) =>
         /\ \E e \in emitted' : e.event = "error" /\ e.to = {s}
         /\ \A e \in emitted' : e.to \subseteq {s} /\ e.event = "error"
         /\ UNCHANGED <<rooms, hd, partCache, onlineCache>>
    ]_vars

\* the events of a room that are fanned out to its sockets
RoomEvents == {"receive_message", "receive_reaction", "user_joined_room", "user_left_room"}

\* C30 (no delivery after leave): leave_room takes the socket out of the room
\* and a disconnect takes it out of every room at once; only a join_room of
\* the socket puts it back; and every room event is delivered only to open
\* sockets that are in the room when it is published.
C30_NoDeliveryAfterLeave ==
  [][/\ \A s \in Sockets, R \in RoomIds :
          /\ LeaveRoom(s, R) => R \notin rooms'[s]
          /\ (R \notin rooms[s] /\ R \in rooms'[s]) => JoinRoom(s, R)
     /\ \A s \in Sockets :
          (sock[s].state = "open" /\ sock'[s].state = "closed") => rooms'[s] = {}
     /\ \A e \in emitted' :
          e.event \in RoomEvents =>
            \A t \in e.to : e.room \in rooms'[t] /\ sock'[t].state = "open"
    ]_vars

\* while the leave_room handler of a socket that had joined r1 is suspended,
\* the other socket publishes a message for r1: it is delivered to the sender
\* only
C30_Witness ==
  \E s \in Sockets, t \in Sockets :
    /\ s # t
    /\ hd[s].kind = "leave" /\ hd[s].room = "r1" /\ hd[s].pc # "idle"
    /\ sock[s].user # sock[t].user
    /\ sock[s].user \in ListedUsers(partCache["r1"].list)
    /\ \E e \in emitted : /\ e.event = "receive_message"
                          /\ e.room = "r1"
                          /\ e.from = t
                          /\ e.to = {t}

TypeOK ==
  /\ now \in 0..MaxTime
  /\ \A i \in Identifiers : loginAttempts[i].count \in 0..(MaxCount + NumReqs)

====
